---- MODULE Spec2Model ----
(***************************************************************************)
(* Trac's version-control registry (trac/versioncontrol/api.py):           *)
(* DbRepositoryProvider, the repository table it writes, and               *)
(* RepositoryManager with its merged-configuration cache, its per-thread   *)
(* backend cache, its lock and its change notifications.                   *)
(*                                                                         *)
(* Every text value (repository name, directory, type, path) is a sequence *)
(* of characters, so '' is << >>, emptiness is a test on the sequence and  *)
(* prefixes are computed.  A repository type is written as one token.      *)
(***************************************************************************)
EXTENDS Integers, Sequences, FiniteSets, TLC

\* ------------------------------------------------------------------ bounds
\* worker threads of the concurrent specification
NThreads == 2
\* intervals added to one TicketGroupStats
MaxIntervals == 3
\* tickets counted in one interval
MaxCount == 3
\* groups of the [milestone-groups] section
MaxGroups == 4
\* tickets of one status
MaxTickets == 1
\* changesets of a repository
MaxChain == 3
\* the latest date of a changeset
MaxDate == 2
\* backends the connectors construct in one behaviour
MaxInst == 2
\* reload_repositories() calls in one behaviour
MaxReloads == 1
\* provider operations (each ends with a reload) in one behaviour of the
\* single-threaded specification
MaxDbOps == 2
\* characters of a path handed to get_repository_by_path
MaxPathLen == 3
\* names registered when paths are split
MaxNames == 3
\* revisions one notify call is given
MaxRevs == 2

\* ------------------------------------------------------------------- texts
Empty == << >>
DefaultLabel == <<"(", "d", "e", "f", "a", "u", "l", "t", ")">>
NameA == <<"A">>
NameB == <<"B">>
NameC == <<"C">>
DirP == <<"/", "p">>
DirQ == <<"/", "q">>
DirRel == <<"r">>
EnvPath == <<"/", "e", "/">>
Svn == <<"svn">>
Git == <<"git">>
Hg == <<"hg">>
\* SQL NULL in the value column
NULL == <<"NULL">>

EmptyMap == [x \in {} |-> {}]

Max(S) == CHOOSE x \in S : \A y \in S : y <= x

\* is_default(reponame)
is_default(reponame) == reponame = Empty \/ reponame = DefaultLabel

\* os.path.isabs(dir) on a POSIX path
isabs(dir) == dir # Empty /\ dir[1] = "/"

\* DbRepositoryProvider.repository_attrs
repository_attrs == {"alias", "description", "dir", "hidden", "name", "type", "url"}

\* --------------------------------------------------- DbRepositoryProvider
\* The rows of `table` that set attribute `attr` of `id` to a non-NULL value.
AttrRows(table, id, attr) ==
    {i \in 1..Len(table) : /\ table[i].id = id
                           /\ table[i].name = attr
                           /\ table[i].value # NULL}

\* repos[id] of get_repositories: each attribute's last non-NULL row, in the
\* order the table returns its rows.
DbInfo(table, id) ==
    [attr \in {a \in repository_attrs : AttrRows(table, id, a) # {}} |->
        table[Max(AttrRows(table, id, attr))].value]

TableIds(table) == {table[i].id : i \in 1..Len(table)}

\* The ids get_repositories keeps: those with a name and a dir or an alias.
NamedIds(table) ==
    {id \in TableIds(table) :
        LET info == DbInfo(table, id)
        IN  /\ "name" \in DOMAIN info
            /\ ("dir" \in DOMAIN info \/ "alias" \in DOMAIN info)}

\* info['id'] = id
WithId(info, id) ==
    [a \in DOMAIN info \cup {"id"} |-> IF a = "id" THEN id ELSE info[a]]

\* DbRepositoryProvider.get_repositories(): reponames[info['name']] = info,
\* filled in increasing id order, so the greatest id of a name is the one kept.
DbGetRepositories(table) ==
    LET ids == NamedIds(table)
        names == {DbInfo(table, id)["name"] : id \in ids}
        idOf(n) == Max({id \in ids : DbInfo(table, id)["name"] = n})
    IN  [n \in names |-> WithId(DbInfo(table, idOf(n)), idOf(n))]

\* The rows "SELECT id FROM repository WHERE name='name' AND value=reponame".
NameRows(table, reponame) ==
    {i \in 1..Len(table) : table[i].name = "name" /\ table[i].value = reponame}

\* Variant: COALESCE(MAX(id), 1), the increment is missing.
NextIdNoIncrement(table) == IF table = << >> THEN 1 ELSE Max(TableIds(table))

\* COALESCE(MAX(id), 0) + 1
NextId(table) == IF table = << >> THEN 1 ELSE Max(TableIds(table)) + 1

Row(id, name, value) == [id |-> id, name |-> name, value |-> value]

Min(S) == CHOOSE x \in S : \A y \in S : x <= y

\* RepositoryManager.get_repository_id(reponame): <<id, table afterwards>>.
\* The id of the first matching row, else a new id and its 'name' row.
get_repository_id(table, reponame) ==
    IF NameRows(table, reponame) # {}
    THEN <<table[Min(NameRows(table, reponame))].id, table>>
    ELSE <<NextId(table), Append(table, Row(NextId(table), "name", reponame))>>

\* ------------------------------------------------- RepositoryManager: pure
\* info['name'] = reponame; info['id'] = id when the provider gave none
Tagged(info, reponame, id) ==
    [a \in DOMAIN info \cup {"name", "id"} |->
        IF a = "name" THEN reponame
        ELSE IF a = "id" /\ "id" \notin DOMAIN info THEN id
        ELSE info[a]]

\* all_repositories[reponame] = info
Put(all, reponame, info) ==
    [n \in DOMAIN all \cup {reponame} |-> IF n = reponame THEN info ELSE all[n]]

\* The value of a set of one element.  {F(x) : x \in {e}} is F(e) with e
\* evaluated once.
Once(S) == CHOOSE x \in S : TRUE

\* Variant of the inner loop: a name already present is overwritten by the
\* later provider's record.
RECURSIVE MergeItemsLastWins(_, _, _)
MergeItemsLastWins(acc, items, order) ==
    IF order = << >> THEN acc
    ELSE LET reponame == Head(order)
             info == items[reponame]
             got == IF "id" \in DOMAIN info
                    THEN <<info["id"], acc.table>>
                    ELSE get_repository_id(acc.table, reponame)
         IN  Once({MergeItemsLastWins(next, items, Tail(order)) :
                     next \in {[all |-> Put(acc.all, reponame,
                                            Tagged(info, reponame, got[1])),
                                table |-> got[2]]}})

\* The inner loop of get_all_repositories over one provider's items, taken in
\* the order `order`: a name already present is discarded, a new one is
\* tagged with its name and, when the provider gave no id, with
\* get_repository_id(reponame).  acc = [all, table].
RECURSIVE MergeItems(_, _, _)
MergeItems(acc, items, order) ==
    IF order = << >> THEN acc
    ELSE LET reponame == Head(order)
             info == items[reponame]
             got == IF "id" \in DOMAIN info
                    THEN <<info["id"], acc.table>>
                    ELSE get_repository_id(acc.table, reponame)
         IN  IF reponame \in DOMAIN acc.all
             THEN MergeItems(acc, items, Tail(order))
             ELSE Once({MergeItems(next, items, Tail(order)) :
                          next \in {[all |-> Put(acc.all, reponame,
                                                 Tagged(info, reponame,
                                                        got[1])),
                                     table |-> got[2]]}})

\* The enumerations of a finite set of names.
Orders(S) ==
    {o \in [1..Cardinality(S) -> S] : \A i, j \in 1..Cardinality(S) :
                                          i # j => o[i] # o[j]}

\* One enumeration of S
RECURSIVE AnyOrder(_)
AnyOrder(S) ==
    IF S = {} THEN << >>
    ELSE LET x == CHOOSE y \in S : TRUE
         IN  <<x>> \o AnyOrder(S \ {x})

\* The body of get_all_repositories when the cache is empty: the providers in
\* their order, the table re-read when DbRepositoryProvider is reached.
\* iniOrder is the order in which the ini provider yields its names.
ComputeAll(table, iniItems, dbFirst, iniOrder) ==
    LET start == [all |-> EmptyMap, table |-> table]
        db(acc) == MergeItems(acc, DbGetRepositories(acc.table),
                              AnyOrder(DOMAIN DbGetRepositories(acc.table)))
        inif(acc) == MergeItems(acc, iniItems, iniOrder)
    IN  IF dbFirst THEN Once({inif(acc) : acc \in {db(start)}})
        ELSE Once({db(acc) : acc \in {inif(start)}})

\* The registered connectors, as get_supported_types() yields them.
\* One connector serves svn; a second serves svn with a higher priority and
\* reports hg as unusable (negative priority).  No connector knows git.
Connectors ==
    << [types |-> << <<Svn, 4>> >>],
       [types |-> << <<Svn, 8>>, <<Hg, -1>> >>] >>

\* The <<connector, type, priority>> triples in the order _get_connector
\* enumerates them.
RECURSIVE Flatten(_, _)
Flatten(connectors, k) ==
    IF k > Len(connectors) THEN << >>
    ELSE [i \in 1..Len(connectors[k].types) |->
             <<k, connectors[k].types[i][1], connectors[k].types[i][2]>>]
         \o Flatten(connectors, k + 1)

\* Variant: "prio < self._connectors[type_][1]", the last of equals is kept.
KeepOneLast(tab, triple) ==
    IF triple[2] \in DOMAIN tab /\ triple[3] < tab[triple[2]][2]
    THEN tab
    ELSE [ty \in DOMAIN tab \cup {triple[2]} |->
             IF ty = triple[2] THEN <<triple[1], triple[3]>> ELSE tab[ty]]

\* keep = (connector, prio) unless the type is present with prio <= the kept
KeepOne(tab, triple) ==
    IF triple[2] \in DOMAIN tab /\ triple[3] <= tab[triple[2]][2]
    THEN tab
    ELSE [ty \in DOMAIN tab \cup {triple[2]} |->
             IF ty = triple[2] THEN <<triple[1], triple[3]>> ELSE tab[ty]]

RECURSIVE BuildConnectors(_, _)
BuildConnectors(tab, triples) ==
    IF triples = << >> THEN tab
    ELSE BuildConnectors(KeepOne(tab, Head(triples)), Tail(triples))

\* self._connectors once built
ConnectorTable(connectors) == BuildConnectors(EmptyMap, Flatten(connectors, 1))

\* Variant: the "prio < 0" test is missing.
_get_connector_any_prio(tab, rtype) ==
    IF rtype \in DOMAIN tab
    THEN [ok |-> TRUE, connector |-> tab[rtype][1], name |-> rtype]
    ELSE [ok |-> FALSE, connector |-> 0, name |-> rtype]

\* _get_connector(rtype) on the built table: the connector, or the error
_get_connector(tab, rtype) ==
    IF rtype \in DOMAIN tab
    THEN IF tab[rtype][2] >= 0
         THEN [ok |-> TRUE, connector |-> tab[rtype][1], name |-> rtype]
         ELSE [ok |-> FALSE, connector |-> tab[rtype][1], name |-> rtype]
    ELSE [ok |-> FALSE, connector |-> 0, name |-> rtype]

\* Variant: the "if prio >= 0" filter is missing.
get_supported_types_any_prio(connectors) ==
    LET triples == Flatten(connectors, 1)
    IN  {triples[i][2] : i \in 1..Len(triples)}

\* RepositoryManager.get_supported_types()
get_supported_types(connectors) ==
    LET triples == Flatten(connectors, 1)
    IN  {triples[i][2] : i \in {j \in 1..Len(triples) : triples[j][3] >= 0}}

\* repoinfo.get('type') or self.repository_type
EffectiveType(repoinfo, default) ==
    IF "type" \in DOMAIN repoinfo /\ repoinfo["type"] # Empty
    THEN repoinfo["type"] ELSE default

\* Variant: a name that is not configured falls back on the default
\* repository's record.
InfoOfOrDefault(all, reponame) ==
    IF reponame \in DOMAIN all THEN all[reponame]
    ELSE IF Empty \in DOMAIN all THEN all[Empty] ELSE EmptyMap

\* all.get(reponame, {})
InfoOf(all, reponame) == IF reponame \in DOMAIN all THEN all[reponame] ELSE EmptyMap

\* repoinfo.get('dir') is truthy
HasDir(repoinfo) == "dir" \in DOMAIN repoinfo /\ repoinfo["dir"] # Empty

\* rdir made absolute: os.path.join(self.env.path, rdir)
AbsDir(rdir) == IF isabs(rdir) THEN rdir ELSE EnvPath \o rdir

\* Variant of Repository.__init__ that takes reponame from the name argument
\* instead of params['name'].
NewRepositoryByName(tid, rtype, rdir, params, gen) ==
    [tid |-> tid, name |-> rtype \o <<":">> \o rdir, params |-> params,
     reponame |-> rtype \o <<":">> \o rdir, id |-> params["id"],
     closed |-> FALSE, gen |-> gen]

\* Repository.__init__ as the connector calls it: name "type:dir", reponame
\* and id read from params.
NewRepository(tid, rtype, rdir, params, gen) ==
    [tid |-> tid, name |-> rtype \o <<":">> \o rdir, params |-> params,
     reponame |-> params["name"], id |-> params["id"],
     closed |-> FALSE, gen |-> gen]

\* ------------------------------------------------------------------ state
VARIABLES
    repository,          \* the repository table: rows [id, name, value]
    ini,                 \* what RepositoryManager.get_repositories() yields
    providers_db_first,  \* DbRepositoryProvider precedes the ini provider
    repository_type,     \* [trac] repository_type
    all_repositories,    \* self._all_repositories
    cache,               \* self._cache: thread -> reponame -> backend
    lock,                \* self._lock: the holding thread, 0 when free
    connectors_tab,      \* self._connectors, [built, tab]
    inst,                \* every backend constructed so far
    reloads,             \* reload_repositories() calls so far
    pc,                  \* each thread's position
    frame,               \* each thread's local variables
    last,                \* each thread's latest finished call
    by_path,             \* the latest get_repository_by_path call
    changesets,          \* the changesets each repository has or can fetch
    notifying,           \* the locals of the notify call under way
    calls,               \* what the latest notify called, in order
    revision,            \* the revision table: rows [repos, rev]
    node_change,         \* the node_change table: rows [repos, rev, path]
    db_call,             \* the latest provider call and its arguments
    request,             \* the pre_process_request under way or last run
    serving,             \* each thread's dispatch_request, under way or last
    connectors,          \* self.connectors: the registered connectors
    stat,                \* a TicketGroupStats and the latest call on it
    grouped,             \* the latest get_ticket_group_stats call
    walk                 \* a Repository.get_changesets generator

\* What the lookups and the provider operations leave alone
besides == <<by_path, changesets, notifying, calls>>

\* What no operation of the registry writes
inputs == <<connectors, stat, grouped, walk>>

\* What only the handling of web requests writes, and what nothing writes
others == <<request, serving, inputs>>

\* What only the provider operations and the history cache write
tables == <<revision, node_change, db_call>>

vars == <<repository, ini, providers_db_first, repository_type,
          all_repositories, cache, lock, connectors_tab, inst, reloads,
          pc, frame, last, by_path, changesets, notifying, calls,
          revision, node_change, db_call, request, serving, connectors,
          stat, grouped, walk>>

Threads == 1..NThreads

\* self._all_repositories = None.  gen is the number of reloads that had run
\* when the providers were read for the cached value.
NoneAll == [none |-> TRUE, repos |-> EmptyMap, gen |-> 0]

\* "if not self._all_repositories" is false
Truthy(a) == ~a.none /\ DOMAIN a.repos # {}

IdleFrame ==
    [op |-> "idle", arg |-> Empty, reponame |-> Empty, phase |-> 0,
     lall |-> EmptyMap, lgen |-> 0, repoinfo |-> EmptyMap, cfg1 |-> EmptyMap,
     cfgGen |-> 0, startGen |-> 0]

\* A finished call: what was asked, how it ended, what it used.
NoCallBrief ==
    [op |-> "none", arg |-> Empty, kind |-> "none", inst |-> 0,
     key |-> Empty, cfg1 |-> EmptyMap, cfg |-> EmptyMap, cfgGen |-> 0,
     startGen |-> 0, built |-> FALSE, err |-> Empty, popped |-> {}]

\* The record of a call without the call that preceded it
Brief(rec) == [k \in DOMAIN NoCallBrief |-> rec[k]]

\* `after` of a lookup is the call the same thread finished before it, when
\* no reload and no shutdown of the thread came in between.
NoCall ==
    [k \in DOMAIN NoCallBrief \cup {"after"} |->
        IF k = "after" THEN NoCallBrief ELSE NoCallBrief[k]]

\* The call of frame f ends: kind is "repos", "None", "TracError" or
\* "AttributeError".
Ended(f, kind, i, built, err) ==
    [op |-> f.op, arg |-> f.arg, kind |-> kind, inst |-> i,
     key |-> f.reponame, cfg1 |-> f.cfg1, cfg |-> f.repoinfo,
     cfgGen |-> f.cfgGen, startGen |-> f.startGen, built |-> built,
     err |-> err, popped |-> {}, after |-> NoCallBrief]

\* "if is_default(reponame): reponame = ''"
Normal(reponame) == IF is_default(reponame) THEN Empty ELSE reponame

\* A call that is no lookup ends: kind is "ok" or "TracError".  For
\* shutdown, inst is the number of backends constructed so far and popped
\* the backends of the dict it took out of the cache.
DbEnded(op, arg, key, kind) ==
    [NoCall EXCEPT !.op = op, !.arg = arg, !.key = key, !.kind = kind]

\* Thread t returns to its caller with record rec.
Return(t, rec) ==
    /\ pc' = [pc EXCEPT ![t] = "idle"]
    /\ frame' = [frame EXCEPT ![t] = IdleFrame]
    /\ last' = [last EXCEPT ![t] =
                    IF rec.op = "get_repository"
                    THEN [rec EXCEPT !.after = Brief(last[t])]
                    ELSE rec]

\* get_repository calls that may still construct a backend
InFlight == Cardinality({t \in Threads : frame[t].op = "get_repository"})

\* ------------------------------------- RepositoryManager.get_all_repositories
\* Thread t enters get_all_repositories() with locals f and finds
\* "if not self._all_repositories" false: only the return is left.
EnterHit(t, f) ==
    /\ Truthy(all_repositories)
    /\ pc' = [pc EXCEPT ![t] = "gar_ret"]
    /\ frame' = [frame EXCEPT ![t] = f]
    /\ UNCHANGED besides
    /\ UNCHANGED others
    /\ UNCHANGED tables
    /\ UNCHANGED <<repository, ini, providers_db_first, repository_type,
                   all_repositories, cache, lock, connectors_tab, inst,
                   reloads, last>>

\* Thread t enters get_all_repositories() with locals f and the cache is
\* empty: the providers are read into the local all_repositories
\* (get_repository_id may add 'name' rows); the assignment is still to come.
EnterCompute(t, f) ==
    /\ ~Truthy(all_repositories)
    /\ \E order \in Orders(DOMAIN ini) :
          LET r == ComputeAll(repository, ini, providers_db_first, order)
          IN  /\ repository' = r.table
              /\ frame' = [frame EXCEPT ![t] =
                              [f EXCEPT !.lall = r.all, !.lgen = reloads]]
    /\ pc' = [pc EXCEPT ![t] = "gar_assign"]
    /\ UNCHANGED besides
    /\ UNCHANGED others
    /\ UNCHANGED tables
    /\ UNCHANGED <<ini, providers_db_first, repository_type,
                   all_repositories, cache, lock, connectors_tab, inst,
                   reloads, last>>

\* The second get_all_repositories() of get_repository (the alias target)
get_all_repositories_hit(t) ==
    /\ pc[t] = "gar_check"
    /\ EnterHit(t, frame[t])

get_all_repositories_compute(t) ==
    /\ pc[t] = "gar_check"
    /\ EnterCompute(t, frame[t])

\* -------------------------------------------- RepositoryManager.get_repository
\* get_repository(reponame) is entered by thread t and calls
\* get_all_repositories().
get_repository_call(t, reponame) ==
    /\ pc[t] = "idle"
    /\ Len(inst) + InFlight < MaxInst
    /\ LET f == [IdleFrame EXCEPT !.op = "get_repository",
                                  !.arg = reponame,
                                  !.reponame = reponame,
                                  !.phase = 1,
                                  !.startGen = reloads]
       IN  EnterHit(t, f) \/ EnterCompute(t, f)

\* self._all_repositories = all_repositories
get_all_repositories_assign(t) ==
    /\ pc[t] = "gar_assign"
    /\ all_repositories' = [none |-> FALSE, repos |-> frame[t].lall,
                            gen |-> frame[t].lgen]
    /\ pc' = [pc EXCEPT ![t] = "gar_ret"]
    /\ frame' = [frame EXCEPT ![t].lall = EmptyMap, ![t].lgen = 0]
    /\ UNCHANGED besides
    /\ UNCHANGED others
    /\ UNCHANGED tables
    /\ UNCHANGED <<repository, ini, providers_db_first, repository_type,
                   cache, lock, connectors_tab, inst, reloads, last>>

\* "return self._all_repositories" finds None (a reload ran since the test or
\* the assignment): the caller's .get() raises AttributeError
get_all_repositories_none(t) ==
    /\ pc[t] = "gar_ret"
    /\ all_repositories.none
    /\ Return(t, Ended(frame[t], "AttributeError", 0, FALSE, Empty))
    /\ UNCHANGED besides
    /\ UNCHANGED others
    /\ UNCHANGED tables
    /\ UNCHANGED <<repository, ini, providers_db_first, repository_type,
                   all_repositories, cache, lock, connectors_tab, inst,
                   reloads>>

\* get_repository lines 530-536 after get_all_repositories() returned val:
\* the alias is followed once (a second get_all_repositories() call), no dir
\* returns None, otherwise the thread goes on to the lock.
\* Variant: the alias of an alias target is followed too.
FollowsAliasAgain(f, info) == "alias" \in DOMAIN info

\* "if 'alias' in repoinfo" is executed once, on the record of the name asked
FollowsAlias(f, info) == f.phase = 1 /\ "alias" \in DOMAIN info

get_repository_resolve(t) ==
    /\ pc[t] = "gar_ret"
    /\ frame[t].op = "get_repository"
    /\ ~all_repositories.none
    /\ LET f == frame[t]
           info == InfoOf(all_repositories.repos, f.reponame)
       IN  IF FollowsAlias(f, info)
           THEN /\ pc' = [pc EXCEPT ![t] = "gar_check"]
                /\ frame' = [frame EXCEPT ![t].reponame = info["alias"],
                                          ![t].phase = 2,
                                          ![t].cfg1 = info]
                /\ UNCHANGED last
           ELSE LET g == [f EXCEPT !.repoinfo = info,
                                   !.cfg1 = IF f.phase = 1 THEN info ELSE f.cfg1,
                                   !.cfgGen = all_repositories.gen]
                IN  IF HasDir(info)
                    THEN /\ pc' = [pc EXCEPT ![t] = "gr_lock"]
                         /\ frame' = [frame EXCEPT ![t] = g]
                         /\ UNCHANGED last
                    ELSE Return(t, Ended(g, "None", 0, FALSE, Empty))
    /\ UNCHANGED besides
    /\ UNCHANGED others
    /\ UNCHANGED tables
    /\ UNCHANGED <<repository, ini, providers_db_first, repository_type,
                   all_repositories, cache, lock, connectors_tab, inst,
                   reloads>>

\* Variant: one dict for all threads, self._cache not keyed by the thread.
RepositoriesOfAll(c, t) == IF DOMAIN c = {} THEN EmptyMap ELSE c[Min(DOMAIN c)]

\* self._cache[tid], created empty when absent
Repositories(c, t) == IF t \in DOMAIN c THEN c[t] ELSE EmptyMap

\* self._cache[tid] = repositories
PutCache(c, t, repositories) ==
    [u \in DOMAIN c \cup {t} |-> IF u = t THEN repositories ELSE c[u]]

\* Variant: the backend is cached under the name asked for, not the name it
\* resolved to.
CacheKeyAsked(f) == f.arg

\* The key of the thread's cache: the resolved reponame of the call
CacheKey(f) == f.reponame

\* "with self._lock:" is left, normally or by an exception: the lock is
\* released
Release == 0

\* The manager's shared state as one value
Manager ==
    [table |-> repository, all |-> all_repositories, cache |-> cache,
     inst |-> inst, tab |-> connectors_tab]

\* get_repository lines 541-555 run by thread t with locals f on manager
\* state m, lock taken to released: the cached backend is returned, or the
\* connector is looked up (the table built on first use) and either
\* constructs and caches a backend or TracError leaves the with-block.
\* [m, kind, inst, built, err]
GetLocked(m, t, f) ==
    LET repositories == Repositories(m.cache, t)
        rtype == EffectiveType(f.repoinfo, repository_type)
        rdir == AbsDir(f.repoinfo["dir"])
        tab == IF m.tab.built THEN m.tab.tab ELSE ConnectorTable(connectors)
        c == _get_connector(tab, rtype)
        repos == NewRepository(t, rtype, rdir, f.repoinfo, f.cfgGen)
    IN  IF CacheKey(f) \in DOMAIN repositories
        THEN [m |-> [m EXCEPT !.cache = PutCache(m.cache, t, repositories)],
              kind |-> "repos", inst |-> repositories[CacheKey(f)],
              built |-> FALSE, err |-> Empty]
        ELSE IF c.ok
        THEN [m |-> [m EXCEPT !.tab = [built |-> TRUE, tab |-> tab],
                              !.inst = Append(m.inst, repos),
                              !.cache = PutCache(m.cache, t,
                                           Put(repositories, CacheKey(f),
                                               Len(m.inst) + 1))],
              kind |-> "repos", inst |-> Len(m.inst) + 1,
              built |-> TRUE, err |-> Empty]
        ELSE [m |-> [m EXCEPT !.tab = [built |-> TRUE, tab |-> tab],
                              !.cache = PutCache(m.cache, t, repositories)],
              kind |-> "TracError", inst |-> 0,
              built |-> FALSE, err |-> c.name]

\* Thread t runs lines 541-555 in one piece, the lock being free.
Locked(t) ==
    /\ pc[t] = "gr_lock"
    /\ lock = 0
    /\ LET r == GetLocked(Manager, t, frame[t])
       IN  /\ cache' = r.m.cache
           /\ inst' = r.m.inst
           /\ connectors_tab' = r.m.tab
           /\ Return(t, Ended(frame[t], r.kind, r.inst, r.built, r.err))
    /\ lock' = Release
    /\ UNCHANGED besides
    /\ UNCHANGED others
    /\ UNCHANGED tables
    /\ UNCHANGED <<repository, ini, providers_db_first, repository_type,
                   all_repositories, reloads>>

\* get_repository finds the backend in the thread's cache
get_repository_cached(t) ==
    /\ CacheKey(frame[t]) \in DOMAIN Repositories(cache, t)
    /\ Locked(t)

\* get_repository finds no cached backend and asks the connector
get_repository_construct(t) ==
    /\ CacheKey(frame[t]) \notin DOMAIN Repositories(cache, t)
    /\ Locked(t)

\* ------------------------------------------ reload_repositories and shutdown
\* The two assignments of reload_repositories under the lock.  What the
\* threads remember of their earlier calls is about the caches just dropped.
ReloadEffect ==
    /\ cache' = EmptyMap
    /\ all_repositories' = NoneAll
    /\ reloads' = reloads + 1

\* Reloads still to come from provider operations already under way
PendingReloads == Cardinality({t \in Threads : pc[t] = "db_reload"})

\* RepositoryManager.reload_repositories() called by thread t
reload_repositories(t) ==
    /\ pc[t] = "idle"
    /\ lock = 0
    /\ ReloadEffect
    /\ last' = [u \in Threads |->
                   IF u = t THEN DbEnded("reload_repositories", Empty, Empty, "ok")
                   ELSE NoCall]
    /\ UNCHANGED besides
    /\ UNCHANGED others
    /\ UNCHANGED tables
    /\ UNCHANGED <<repository, ini, providers_db_first, repository_type,
                   lock, connectors_tab, inst, pc, frame>>

\* repositories.values()
Backends(repositories) == {repositories[n] : n \in DOMAIN repositories}

\* repos.close() for every backend in repositories
CloseAll(insts, repositories) ==
    [i \in 1..Len(insts) |->
        IF i \in Backends(repositories)
        THEN [insts[i] EXCEPT !.closed = TRUE] ELSE insts[i]]

\* Variant: self._cache.get(tid, {}), the dict stays in the cache.
PopCacheKept(c, t) == c

\* self._cache.pop(tid, {})
PopCache(c, t) == [u \in DOMAIN c \ {t} |-> c[u]]

\* RepositoryManager.shutdown(tid) called by thread tid
shutdown(t) ==
    /\ pc[t] = "idle"
    /\ lock = 0
    /\ cache' = PopCache(cache, t)
    /\ inst' = CloseAll(inst, Repositories(cache, t))
    /\ last' = [last EXCEPT ![t] =
                    [NoCall EXCEPT !.op = "shutdown", !.kind = "ok",
                                   !.inst = Len(inst),
                                   !.popped = Backends(Repositories(cache, t))]]
    /\ UNCHANGED besides
    /\ UNCHANGED others
    /\ UNCHANGED tables
    /\ UNCHANGED <<repository, ini, providers_db_first, repository_type,
                   all_repositories, lock, connectors_tab, reloads, pc, frame>>

\* --------------------------------------------- DbRepositoryProvider: writes
\* A provider operation is entered by thread t.
DbCanStart(t) == pc[t] = "idle"

\* No provider operation was called yet
NotCalled ==
    [tid |-> 0, op |-> "none", reponame |-> Empty, dir |-> Empty,
     type_ |-> Empty, changes |-> << >>, turn |-> 0]

\* The provider operation op is called by thread t with these arguments;
\* turn tells a call from the one before it
Called(t, op, reponame, dir, type_, changes) ==
    [tid |-> t, op |-> op, reponame |-> reponame, dir |-> dir,
     type_ |-> type_, changes |-> changes, turn |-> 1 - db_call.turn]

\* "with self.env.db_transaction as db:" is left normally: what the
\* transaction read and wrote takes effect in one piece
Commit(table) == repository' = table

\* db.executemany("INSERT INTO repository (id, name, value) VALUES ...", rows)
\* on a table of three plain columns
Insert(table, rows) == table \o rows

\* The transaction of a provider operation has committed `table`; what is
\* left is rm.reload_repositories().
CommitTable(t, op, arg, table) ==
    /\ Commit(table)
    /\ pc' = [pc EXCEPT ![t] = "db_reload"]
    /\ frame' = [frame EXCEPT ![t] =
                    [IdleFrame EXCEPT !.op = op, !.arg = arg,
                                      !.reponame = Normal(arg)]]
    /\ UNCHANGED besides
    /\ UNCHANGED others
    /\ UNCHANGED <<ini, providers_db_first, repository_type,
                   all_repositories, cache, lock, connectors_tab, inst,
                   reloads, last>>

\* ... by an operation that writes the repository table only
Committed(t, op, arg, table) ==
    /\ CommitTable(t, op, arg, table)
    /\ UNCHANGED <<revision, node_change>>

\* The operation raises before or inside its transaction: nothing is written
\* (an exception leaving db_transaction rolls it back) and no reload follows.
Raised(t, op, arg) ==
    /\ Return(t, DbEnded(op, arg, Normal(arg), "TracError"))
    /\ UNCHANGED besides
    /\ UNCHANGED others
    /\ UNCHANGED <<revision, node_change>>
    /\ UNCHANGED <<repository, ini, providers_db_first, repository_type,
                   all_repositories, cache, lock, connectors_tab, inst,
                   reloads>>

\* The rows add_repository writes
AddRepositoryRows(table, reponame, dir, type_) ==
    LET got == get_repository_id(table, reponame)
    IN  Insert(got[2],
               << Row(got[1], "dir", dir), Row(got[1], "type", type_) >>)

\* Variant: the type is not checked.
AddRepositoryValidDir(dir, type_) == isabs(dir)

\* add_repository passes its two checks
AddRepositoryValid(dir, type_) ==
    /\ isabs(dir)
    /\ type_ = Empty \/ type_ \in get_supported_types(connectors)

\* DbRepositoryProvider.add_repository(reponame, dir, type_) up to its commit
add_repository(t, reponame, dir, type_) ==
    /\ DbCanStart(t)
    /\ db_call' = Called(t, "add_repository", reponame, dir, type_, << >>)
    /\ IF AddRepositoryValid(dir, type_)
       THEN Committed(t, "add_repository", reponame,
                      AddRepositoryRows(repository, Normal(reponame), dir, type_))
       ELSE Raised(t, "add_repository", reponame)

\* The rows add_alias writes
AddAliasRows(table, reponame, target) ==
    LET got == get_repository_id(table, reponame)
    IN  Insert(got[2],
               << Row(got[1], "dir", NULL), Row(got[1], "alias", target) >>)

\* DbRepositoryProvider.add_alias(reponame, target) up to its commit
add_alias(t, reponame, target) ==
    /\ DbCanStart(t)
    /\ db_call' = Called(t, "add_alias", reponame, Empty, Empty, << >>)
    /\ Committed(t, "add_alias", reponame,
                 AddAliasRows(repository, Normal(reponame), Normal(target)))

\* DELETE FROM revision WHERE repos=%s; DELETE FROM node_change WHERE repos=%s
DeleteRepos(rows, id) == {r \in rows : r.repos # id}

\* DELETE FROM repository WHERE id=%s
DeleteId(table, id) == SelectSeq(table, LAMBDA r : r.id # id)

\* The table after remove_repository's transaction
RemoveRepositoryRows(table, reponame) ==
    LET got == get_repository_id(table, reponame)
    IN  DeleteId(got[2], got[1])

\* DbRepositoryProvider.remove_repository(reponame) up to its commit
remove_repository(t, reponame) ==
    /\ DbCanStart(t)
    /\ db_call' = Called(t, "remove_repository", reponame, Empty, Empty,
                       << >>)
    /\ CommitTable(t, "remove_repository", reponame,
                   RemoveRepositoryRows(repository, Normal(reponame)))
    /\ LET id == get_repository_id(repository, Normal(reponame))[1]
       IN  /\ revision' = DeleteRepos(revision, id)
           /\ node_change' = DeleteRepos(node_change, id)

\* Variant: UPDATE repository SET value=v WHERE id=%s, every row of the id.
SetAttrAllRows(table, id, k, v) ==
    IF \E i \in 1..Len(table) : table[i].id = id
    THEN [i \in 1..Len(table) |->
             IF table[i].id = id
             THEN [table[i] EXCEPT !.value = v] ELSE table[i]]
    ELSE Append(table, Row(id, k, v))

\* UPDATE repository SET value=v WHERE id=%s AND name=k, then the INSERT when
\* the SELECT finds no row for (id, k).
SetAttr(table, id, k, v) ==
    IF \E i \in 1..Len(table) : table[i].id = id /\ table[i].name = k
    THEN [i \in 1..Len(table) |->
             IF table[i].id = id /\ table[i].name = k
             THEN [table[i] EXCEPT !.value = v] ELSE table[i]]
    ELSE Append(table, Row(id, k, v))

\* "if k in ('alias', 'name') and is_default(v): v = ''"
ChangeValue(k, v) == IF k \in {"alias", "name"} THEN Normal(v) ELSE v

\* The loop of modify_repository over the changes, in iteration order:
\* [ok, table]; ok is FALSE when a 'dir' that is not absolute raised.
RECURSIVE ApplyChanges(_, _, _)
ApplyChanges(table, id, changes) ==
    IF changes = << >> THEN [ok |-> TRUE, table |-> table]
    ELSE LET k == Head(changes)[1]
             v == ChangeValue(k, Head(changes)[2])
         IN  IF k \notin repository_attrs
             THEN ApplyChanges(table, id, Tail(changes))
             ELSE IF k = "dir" /\ ~isabs(v)
             THEN [ok |-> FALSE, table |-> table]
             ELSE ApplyChanges(SetAttr(table, id, k, v), id, Tail(changes))

\* The transaction of modify_repository
ModifyRepositoryRows(table, reponame, changes) ==
    LET got == get_repository_id(table, reponame)
    IN  ApplyChanges(got[2], got[1], changes)

\* DbRepositoryProvider.modify_repository(reponame, changes) up to its commit
modify_repository(t, reponame, changes) ==
    /\ DbCanStart(t)
    /\ db_call' = Called(t, "modify_repository", reponame, Empty, Empty,
                       changes)
    /\ LET r == ModifyRepositoryRows(repository, Normal(reponame), changes)
       IN  IF r.ok
           THEN Committed(t, "modify_repository", reponame, r.table)
           ELSE Raised(t, "modify_repository", reponame)

\* rm.reload_repositories() at the end of a provider operation
provider_reload(t) ==
    /\ pc[t] = "db_reload"
    /\ lock = 0
    /\ ReloadEffect
    /\ pc' = [pc EXCEPT ![t] = "idle"]
    /\ frame' = [frame EXCEPT ![t] = IdleFrame]
    /\ last' = [u \in Threads |->
                   IF u = t
                   THEN DbEnded(frame[t].op, frame[t].arg, frame[t].reponame, "ok")
                   ELSE NoCall]
    /\ UNCHANGED besides
    /\ UNCHANGED others
    /\ UNCHANGED tables
    /\ UNCHANGED <<repository, ini, providers_db_first, repository_type,
                   lock, connectors_tab, inst>>

\* RepositoryManager.get_repository_id(reponame) called by thread t on its
\* own: one transaction
get_repository_id_call(t, reponame) ==
    /\ pc[t] = "idle"
    /\ Commit(get_repository_id(repository, reponame)[2])
    /\ db_call' = Called(t, "get_repository_id", reponame, Empty, Empty,
                         << >>)
    /\ UNCHANGED besides
    /\ UNCHANGED others
    /\ UNCHANGED <<revision, node_change>>
    /\ UNCHANGED <<ini, providers_db_first, repository_type,
                   all_repositories, cache, lock, connectors_tab, inst,
                   reloads, pc, frame, last>>

\* A cached repository synchronizes: the history of revision rev of the
\* repository with id `id` is stored, one revision row and one node_change
\* row keyed by the id
sync_cached(id, rev) ==
    /\ id \in TableIds(repository)
    /\ revision' = revision \cup {[repos |-> id, rev |-> rev]}
    /\ node_change' = node_change
                         \cup {[repos |-> id, rev |-> rev, path |-> <<"/">>]}
    /\ UNCHANGED besides
    /\ UNCHANGED others
    /\ UNCHANGED <<repository, ini, providers_db_first, repository_type,
                   all_repositories, cache, lock, connectors_tab, inst,
                   reloads, pc, frame, last, db_call>>

\* ------------------------------------------------ lookups run in one piece
\* get_all_repositories() run without interruption on manager state m
SeqAll(m) ==
    IF Truthy(m.all) THEN m
    ELSE LET r == ComputeAll(m.table, ini, providers_db_first,
                             AnyOrder(DOMAIN ini))
         IN  [m EXCEPT !.table = r.table,
                       !.all = [none |-> FALSE, repos |-> r.all,
                                gen |-> reloads]]

\* get_repository(reponame) run without interruption by thread t on manager
\* state m: [m, kind, inst, built, err] with kind "repos", "None" or
\* "TracError".
SeqGet(m, t, reponame) ==
    LET Got(m1) ==
            LET info1 == InfoOf(m1.all.repos, reponame)
                aliased == "alias" \in DOMAIN info1
                m2 == IF aliased THEN SeqAll(m1) ELSE m1
                key == IF aliased THEN info1["alias"] ELSE reponame
                info == InfoOf(m2.all.repos, key)
                f == [IdleFrame EXCEPT !.op = "get_repository",
                                       !.arg = reponame,
                                       !.reponame = key, !.repoinfo = info,
                                       !.cfgGen = m2.all.gen]
            IN  IF HasDir(info) THEN GetLocked(m2, t, f)
                ELSE [m |-> m2, kind |-> "None", inst |-> 0,
                      built |-> FALSE, err |-> Empty]
    IN  Once({Got(m1) : m1 \in {SeqAll(m)}})

\* The manager state becomes m.
Becomes(m) ==
    /\ repository' = m.table
    /\ all_repositories' = m.all
    /\ cache' = m.cache
    /\ inst' = m.inst
    /\ connectors_tab' = m.tab

\* ---------------------------------- RepositoryManager.get_repository_by_path
\* The characters of names and paths in the order of their code points
Collation == <<"(", ")", "/", "A", "B", "a", "b", "d", "e", "f", "l", "p",
               "q", "r", "t", "u">>

Rank(c) == CHOOSE i \in 1..Len(Collation) : Collation[i] = c

\* str.__lt__: a < b
RECURSIVE TextLess(_, _)
TextLess(a, b) ==
    IF b = << >> THEN FALSE
    ELSE IF a = << >> THEN TRUE
    ELSE IF Head(a) = Head(b) THEN TextLess(Tail(a), Tail(b))
    ELSE Rank(Head(a)) < Rank(Head(b))

\* s.lstrip('/')
RECURSIVE LStrip(_)
LStrip(s) == IF s # << >> /\ Head(s) = "/" THEN LStrip(Tail(s)) ELSE s

\* s.rstrip('/')
RECURSIVE RStrip(_)
RStrip(s) ==
    IF s # << >> /\ s[Len(s)] = "/" THEN RStrip(SubSeq(s, 1, Len(s) - 1))
    ELSE s

\* s.strip('/')
Strip(s) == RStrip(LStrip(s))

\* Variant: s.startswith(prefix) tested without the last character of the
\* prefix (the '/' that closes the component).
StartsWithOpen(s, prefix) ==
    /\ Len(prefix) - 1 <= Len(s)
    /\ SubSeq(s, 1, Len(prefix) - 1) = SubSeq(prefix, 1, Len(prefix) - 1)

\* s.startswith(prefix)
StartsWith(s, prefix) ==
    /\ Len(prefix) <= Len(s)
    /\ SubSeq(s, 1, Len(prefix)) = prefix

\* path.strip('/') + '/' if path else '/'
Slashed(path) == IF path # << >> THEN Strip(path) \o <<"/">> ELSE <<"/">>

\* The (len(stripped_reponame), reponame) pairs of the names that match
Matches(reponames, path) ==
    {<<Len(Strip(n)) + 1, n>> :
        n \in {m \in reponames : StartsWith(path, Strip(m) \o <<"/">>)}}

\* (a, x) < (b, y) on (int, str) tuples
PairLess(p, q) == p[1] < q[1] \/ (p[1] = q[1] /\ TextLess(p[2], q[2]))

\* matches.sort(); matches[-1]
LastOf(matches) ==
    CHOOSE p \in matches : \A q \in matches : q = p \/ PairLess(q, p)

\* path.rstrip('/') or '/'
OrSlash(path) == IF RStrip(path) = << >> THEN <<"/">> ELSE RStrip(path)

\* The reponame and the remaining path get_repository_by_path(path) computes
\* from the registered reponames.
SplitPath(reponames, path) ==
    LET p == Slashed(path)
        matches == Matches(reponames, p)
    IN  IF matches # {}
        THEN [reponame |-> LastOf(matches)[2],
              path |-> OrSlash(SubSeq(p, LastOf(matches)[1] + 1, Len(p)))]
        ELSE [reponame |-> Empty, path |-> OrSlash(p)]

NoLookup ==
    [asked |-> FALSE, arg |-> Empty, reponame |-> Empty, kind |-> "none",
     inst |-> 0, path |-> Empty]

\* get_repository_by_path(path) called by thread t, run in one piece
get_repository_by_path(t, path) ==
    /\ pc[t] = "idle"
    /\ \E m \in {SeqAll(Manager)} :
       \E split \in {SplitPath(DOMAIN m.all.repos, path)} :
       \E r \in {SeqGet(m, t, split.reponame)} :
          /\ Becomes(r.m)
          /\ by_path' = [asked |-> TRUE, arg |-> path,
                         reponame |-> split.reponame, kind |-> r.kind,
                         inst |-> r.inst, path |-> split.path]
    /\ UNCHANGED <<ini, providers_db_first, repository_type, lock, reloads,
                   pc, frame, last, changesets, notifying, calls>>
    /\ UNCHANGED tables
    /\ UNCHANGED others

\* ------------------------------------------------ RepositoryManager.notify
\* The working directory os.path.abspath resolves against
Cwd == <<"/", "w">>

\* os.path.abspath(path)
abspath(path) ==
    IF isabs(path) THEN OrSlash(path)
    ELSE IF path = << >> THEN Cwd
    ELSE Cwd \o <<"/">> \o RStrip(path)

\* os.path.join(directory, ''): the directory with its separator
WithSep(directory) ==
    IF directory # << >> /\ directory[Len(directory)] = "/" THEN directory
    ELSE directory \o <<"/">>

\* get_real_repositories() run by thread t on m over the names in `order`:
\* [m, repositories]; a name whose lookup raises TracError or returns None
\* is skipped.
RECURSIVE SeqReal(_, _, _, _)
SeqReal(m, t, order, repositories) ==
    IF order = << >> THEN [m |-> m, repositories |-> repositories]
    ELSE Once({SeqReal(r.m, t, Tail(order),
                       IF r.kind = "repos" THEN repositories \cup {r.inst}
                       ELSE repositories) :
                 r \in {SeqGet(m, t, Head(order))}})

\* get_repositories_by_dir(directory) run by thread t on m over the names in
\* `order`: [m, repositories, raised]; a TracError of a lookup leaves the
\* loop.
RECURSIVE SeqByDir(_, _, _, _, _)
SeqByDir(m, t, directory, order, repositories) ==
    IF order = << >>
    THEN [m |-> m, repositories |-> repositories, raised |-> FALSE]
    ELSE LET repoinfo == m.all.repos[Head(order)]
             After(r) ==
                 IF r.kind = "TracError"
                 THEN [m |-> r.m, repositories |-> repositories,
                       raised |-> TRUE]
                 ELSE SeqByDir(r.m, t, directory, Tail(order),
                               IF r.kind = "repos"
                               THEN Append(repositories, r.inst)
                               ELSE repositories)
         IN  IF HasDir(repoinfo)
                /\ StartsWith(WithSep(repoinfo["dir"]), WithSep(directory))
             THEN Once({After(r) : r \in {SeqGet(m, t, Head(order))}})
             ELSE SeqByDir(m, t, directory, Tail(order), repositories)

\* Variant: the repositories are not filtered by their base.
SameBaseAll(m, i, base) == TRUE

\* r.get_base() == base
SameBase(m, i, base) == m.inst[i].name = base

\* sorted(repositories, key=lambda r: r.reponame): each backend goes behind
\* those of smaller reponame and behind its equals that came before it
SortedByReponame(m, repositories) ==
    LET n == Len(repositories)
        key(k) == m.inst[repositories[k]].reponame
        place(k) == 1 + Cardinality({j \in 1..n :
                                       \/ TextLess(key(j), key(k))
                                       \/ key(j) = key(k) /\ j < k})
    IN  [p \in 1..n |-> repositories[CHOOSE k \in 1..n : place(k) = p]]

\* The revisions notify is told about
Revs == {1, 2}

\* The change listeners, in the order of self.change_listeners
Listeners == <<"ticket_updater", "mailer">>

\* The store behind backend i: the changesets its repository has and those a
\* resync can still fetch
Store(m, cs, i) == cs[m.inst[i].name]

\* repos.get_changeset(rev) finds the changeset; NoSuchChangeset otherwise
HasChangeset(m, cs, i, rev) == rev \in Store(m, cs, i).have

\* repos.sync_changeset(rev): the changeset becomes available when the
\* repository can fetch it
sync_changeset(m, cs, i, rev) ==
    IF rev \in Store(m, cs, i).fetch
    THEN [cs EXCEPT ![m.inst[i].name].have = @ \cup {rev}]
    ELSE cs

\* "for listener in self.change_listeners: getattr(listener, event)(...)"
ListenerCalls(event, i, rev) ==
    [l \in 1..Len(Listeners) |-> <<"listener", Listeners[l], event, i, rev>>]

\* Variant: the second NoSuchChangeset ends the loop over revs.
OnNoSuchChangesetBreak(n) == [n EXCEPT !.rev = Len(n.revs) + 1]

\* "except NoSuchChangeset: continue": on to the next rev
OnNoSuchChangeset(n) == [n EXCEPT !.rev = n.rev + 1]

\* No notify is under way
NotNotifying ==
    [pc |-> "idle", tid |-> 0, event |-> "none", reponame |-> Empty,
     revs |-> << >>, repos |-> 0, base |-> Empty, repositories |-> << >>,
     rev |-> 0, outcome |-> "none"]

\* What the steps of notify that look repositories up leave alone
NotifyLookup ==
    /\ calls' = << >>
    /\ UNCHANGED <<ini, providers_db_first, repository_type, lock, reloads,
                   pc, frame, last, by_path, changesets>>
    /\ UNCHANGED tables
    /\ UNCHANGED others

\* notify has settled on its repositories, or raised: "if not repositories"
\* returns
Chosen(n, repositories, raised) ==
    [n EXCEPT !.repositories = repositories,
              !.pc = IF raised \/ repositories = << >> THEN "done"
                     ELSE "sync",
              !.outcome = IF raised THEN "TracError"
                          ELSE IF repositories = << >> THEN "returned"
                          ELSE "none"]

\* notify(event, reponame, revs) is called by thread t: lines 628-641,
\* "repos = self.get_repository(reponame)" and "base = repos.get_base()"
notify_call(t, event, reponame, revs) ==
    /\ pc[t] = "idle"
    /\ notifying.pc = "idle"
    /\ \E r \in {SeqGet(Manager, t, reponame)} :
          /\ Becomes(r.m)
          /\ notifying' =
                LET n == [NotNotifying EXCEPT !.event = event,
                                              !.reponame = reponame,
                                              !.revs = revs, !.tid = t]
                IN  IF r.kind = "TracError" THEN Chosen(n, << >>, TRUE)
                    ELSE IF r.kind = "repos"
                    THEN [n EXCEPT !.pc = "real", !.repos = r.inst,
                                   !.base = r.m.inst[r.inst].name]
                    ELSE [n EXCEPT !.pc = "by_dir"]
    /\ NotifyLookup

\* notify lines 642-648: no backend of that name, the repositories below the
\* directory of that name are taken, or the name is taken for a base
notify_by_dir ==
    /\ notifying.pc = "by_dir"
    /\ \E ma \in {SeqAll(Manager)} :
       \E r \in {SeqByDir(ma, notifying.tid, abspath(notifying.reponame),
                          AnyOrder(DOMAIN ma.all.repos), << >>)} :
          /\ Becomes(r.m)
          /\ notifying' =
                IF r.raised THEN Chosen(notifying, << >>, TRUE)
                ELSE IF r.repositories # << >>
                THEN Chosen(notifying,
                            SortedByReponame(r.m, r.repositories), FALSE)
                ELSE IF notifying.reponame # << >>
                THEN [notifying EXCEPT !.pc = "real",
                                       !.base = notifying.reponame]
                ELSE Chosen(notifying, << >>, FALSE)
    /\ NotifyLookup

\* notify lines 649-651, "if base:": the real repositories of that base
notify_real ==
    /\ notifying.pc = "real"
    /\ \E ma \in {SeqAll(Manager)} :
       \E r \in {SeqReal(ma, notifying.tid, AnyOrder(DOMAIN ma.all.repos),
                         {})} :
          /\ Becomes(r.m)
          /\ notifying' =
                Chosen(notifying,
                       SortedByReponame(r.m,
                           AnyOrder({i \in r.repositories :
                                        SameBase(r.m, i, notifying.base)})),
                       FALSE)
    /\ NotifyLookup

\* What notify leaves alone once its repositories are chosen
NotifyFrame ==
    /\ UNCHANGED <<repository, ini, providers_db_first, repository_type,
                   all_repositories, cache, lock, connectors_tab, inst,
                   reloads, pc, frame, last, by_path>>
    /\ UNCHANGED tables
    /\ UNCHANGED others

\* The loop over revs of the current repository has ended: the next
\* repository, or the return
NextRepository(n) ==
    IF Len(n.repositories) > 1
    THEN [n EXCEPT !.repositories = Tail(n.repositories), !.pc = "sync",
                   !.rev = 0]
    ELSE [n EXCEPT !.repositories = << >>, !.pc = "done",
                   !.outcome = "returned"]

\* The rev the loop is at, or the end of the loop
Settled(n) == IF n.rev > Len(n.revs) THEN NextRepository(n) ELSE n

\* repos.sync() of the next repository, line 658
notify_sync ==
    /\ notifying.pc = "sync"
    /\ calls' = Append(calls, <<"sync", Head(notifying.repositories)>>)
    /\ notifying' = Settled([notifying EXCEPT !.pc = "rev", !.rev = 1])
    /\ UNCHANGED changesets
    /\ NotifyFrame

\* One pass of the loop over revs, lines 659-674
notify_rev ==
    /\ notifying.pc = "rev"
    /\ LET n == notifying
           i == Head(n.repositories)
           rev == n.revs[n.rev]
           modified == n.event = "changeset_modified"
           cs1 == IF modified THEN sync_changeset(Manager, changesets, i, rev)
                  ELSE changesets
           c1 == calls \o (IF modified THEN << <<"sync_changeset", i, rev>> >>
                           ELSE << >>)
                       \o << <<"get_changeset", i, rev>> >>
           cs2 == sync_changeset(Manager, cs1, i, rev)
           c2 == c1 \o << <<"sync_changeset", i, rev>>,
                          <<"get_changeset", i, rev>> >>
       IN  IF HasChangeset(Manager, cs1, i, rev)
           THEN /\ changesets' = cs1
                /\ calls' = c1 \o ListenerCalls(n.event, i, rev)
                /\ notifying' = Settled([n EXCEPT !.rev = n.rev + 1])
           ELSE IF HasChangeset(Manager, cs2, i, rev)
           THEN /\ changesets' = cs2
                /\ calls' = c2 \o ListenerCalls(n.event, i, rev)
                /\ notifying' = Settled([n EXCEPT !.rev = n.rev + 1])
           ELSE /\ changesets' = cs2
                /\ calls' = c2
                /\ notifying' = Settled(OnNoSuchChangeset(n))
    /\ NotifyFrame

\* ------------------------------------------- ticket.roadmap.TicketGroupStats
\* The variables of the repository registry
registry ==
    <<repository, ini, providers_db_first, repository_type, all_repositories,
      cache, lock, connectors_tab, inst, reloads, pc, frame, last, besides,
      tables, request, serving, connectors>>

\* interval['percent'] = None
NoPercent == -1

\* TicketGroupStats.__init__
NewStats ==
    [count |-> 0, intervals |-> << >>, done_percent |-> 0, done_count |-> 0]

\* TicketGroupStats.add_interval(title, count, qry_args, css_class,
\* overall_completion)
add_interval(st, count, overall_completion) ==
    [st EXCEPT !.intervals =
                   Append(st.intervals,
                          [count |-> count, percent |-> NoPercent,
                           overall_completion |-> overall_completion]),
               !.count = st.count + count]

\* round(n / float(d)) for n >= 0 and d > 0: halves go away from zero
Round(n, d) == (2 * n + d) \div (2 * d)

\* The sum of f[i] over the indices in S
RECURSIVE SumOver(_, _)
SumOver(f, S) ==
    IF S = {} THEN 0
    ELSE LET i == CHOOSE x \in S : TRUE IN f[i] + SumOver(f, S \ {i})

\* "if self.done_count and total_percent != 100"
Fudges(done_count, total_percent) == done_count # 0 /\ total_percent # 100

\* [i for i in sorted(self.intervals, key=percent, reverse=(fudge_amt < 0))
\* if i['percent']][0]: the sort is stable in either direction
FudgeInt(percent, fudge_amt) ==
    LET nonzero == {i \in DOMAIN percent : percent[i] # 0}
        Before(i, j) ==
            \/ IF fudge_amt < 0 THEN percent[i] > percent[j]
                                ELSE percent[i] < percent[j]
            \/ percent[i] = percent[j] /\ i <= j
    IN  CHOOSE i \in nonzero : \A j \in nonzero : Before(i, j)

\* TicketGroupStats.refresh_calcs()
refresh_calcs(st) ==
    IF st.count < 1 THEN st
    ELSE LET n == DOMAIN st.intervals
             percent == [i \in n |->
                            Round(st.intervals[i].count * 100, st.count)]
             counts == [i \in n |-> st.intervals[i].count]
             done == {i \in n : st.intervals[i].overall_completion}
             total_percent == SumOver(percent, n)
             done_count == SumOver(counts, done)
             fudge_amt == 100 - total_percent
             fudges == Fudges(done_count, total_percent)
             fudged == [i \in n |->
                           IF fudges /\ i = FudgeInt(percent, fudge_amt)
                           THEN percent[i] + fudge_amt ELSE percent[i]]
         IN  [st EXCEPT
                 !.intervals = [i \in n |->
                                   [st.intervals[i] EXCEPT !.percent = fudged[i]]],
                 !.done_percent = SumOver(percent, done)
                                     + (IF fudges THEN fudge_amt ELSE 0),
                 !.done_count = done_count]

\* stat.add_interval(...) is called
add_interval_call(count, overall_completion) ==
    /\ Len(stat.obj.intervals) < MaxIntervals
    /\ stat' = [obj |-> add_interval(stat.obj, count, overall_completion),
                op |-> "add_interval"]
    /\ UNCHANGED <<registry, grouped, walk>>

\* stat.refresh_calcs() is called
refresh_calcs_call ==
    /\ stat' = [obj |-> refresh_calcs(stat.obj), op |-> "refresh_calcs"]
    /\ UNCHANGED <<registry, grouped, walk>>

\* ------------------- DefaultTicketGroupStatsProvider.get_ticket_group_stats
\* No statistics were asked for
NotGrouped ==
    [groups |-> << >>, status_cnt |-> EmptyMap, kind |-> "none",
     msg |-> "", group1 |-> "", group2 |-> "", stat |-> NewStats]

\* TicketSystem(self.env).get_all_status()
AllStatuses == {"new", "closed"}

\* The status of a catch-all group, as the list of its comma-separated items
Star == <<"*">>

\* set([s.strip() for s in status_str.split(',')]) & all_statuses
GroupStatuses(status) == {status[k] : k \in 1..Len(status)} \cap AllStatuses

\* The first loop over the groups from group i on.  acc holds
\* catch_all_group (0 for None), remaining_statuses and group['statuses'].
\* A group without a 'status' option ends the call with KeyError at
\* group['status'].
RECURSIVE ScanGroups(_, _, _)
ScanGroups(groups, i, acc) ==
    IF i > Len(groups) THEN acc
    ELSE IF ~groups[i].declared
    THEN [acc EXCEPT !.kind = "KeyError", !.group1 = groups[i].name]
    ELSE IF groups[i].status = Star
    THEN IF acc.catch # 0
         THEN [acc EXCEPT !.kind = "TracError", !.msg = "catch-all",
                          !.group1 = groups[i].name,
                          !.group2 = groups[acc.catch].name]
         ELSE ScanGroups(groups, i + 1, [acc EXCEPT !.catch = i])
    ELSE LET group_statuses == GroupStatuses(groups[i].status)
         IN  IF group_statuses \ acc.remaining # {}
             THEN [acc EXCEPT !.kind = "TracError", !.msg = "reused",
                              !.group1 = groups[i].name]
             ELSE ScanGroups(groups, i + 1,
                             [acc EXCEPT !.remaining = @ \ group_statuses,
                                         !.statuses[i] = group_statuses])

\* The second loop: one interval per group, in order
RECURSIVE AddIntervals(_, _, _, _, _)
AddIntervals(st, groups, statuses, status_cnt, i) ==
    IF i > Len(groups) THEN st
    ELSE AddIntervals(add_interval(st, SumOver(status_cnt, statuses[i]),
                                   groups[i].overall_completion),
                      groups, statuses, status_cnt, i + 1)

\* get_ticket_group_stats(ticket_ids) with the groups _get_ticket_groups()
\* returns and the counts the query yields
get_ticket_group_stats(groups, status_cnt) ==
    LET start == [kind |-> "stat", msg |-> "", group1 |-> "", group2 |-> "",
                  catch |-> 0, remaining |-> AllStatuses,
                  statuses |-> [i \in 1..Len(groups) |-> {}]]
        scan == ScanGroups(groups, 1, start)
        statuses == IF scan.catch # 0
                    THEN [scan.statuses EXCEPT ![scan.catch] = scan.remaining]
                    ELSE scan.statuses
    IN  [groups |-> groups, status_cnt |-> status_cnt, kind |-> scan.kind,
         msg |-> scan.msg, group1 |-> scan.group1, group2 |-> scan.group2,
         stat |-> IF scan.kind = "stat"
                  THEN refresh_calcs(AddIntervals(NewStats, groups, statuses,
                                                  status_cnt, 1))
                  ELSE NewStats]

\* get_ticket_group_stats is called in the environment configured
get_ticket_group_stats_call ==
    /\ grouped.kind = "none"
    /\ grouped' = get_ticket_group_stats(grouped.groups, grouped.status_cnt)
    /\ UNCHANGED <<registry, stat, walk>>

\* ------------------------------------------------ Repository.get_changesets
\* previous_rev(rev) of the oldest revision; youngest_rev of an empty
\* repository
None == -1

\* No generator was created.  history lists the changesets [rev, date] of
\* the repository from the youngest on, each the previous_rev of the one
\* before it.
NotWalking ==
    [pc |-> "none", history |-> << >>, start |-> 0, stop |-> 0, rev |-> None,
     yielded |-> << >>]

\* The place in history of the changeset of revision rev
Place(history, rev) == CHOOSE i \in DOMAIN history : history[i].rev = rev

\* self.youngest_rev
youngest_rev(history) == IF history = << >> THEN None ELSE history[1].rev

\* self.previous_rev(rev)
previous_rev(history, rev) ==
    IF Place(history, rev) = Len(history) THEN None
    ELSE history[Place(history, rev) + 1].rev

\* "while rev:" goes on
Truth(rev) == rev # None /\ rev # 0

\* Variant: "if chgset.date <= stop"
YieldsUpTo(date, stop) == date <= stop

\* "if chgset.date < stop: yield chgset"
Yields(date, stop) == date < stop

\* get_changesets(start, stop) is called: "rev = self.youngest_rev"
get_changesets_call ==
    /\ walk.pc = "created"
    /\ walk' = [walk EXCEPT !.pc = "while",
                            !.rev = youngest_rev(walk.history)]
    /\ UNCHANGED <<registry, stat, grouped>>

\* One test of "while rev:" and one pass of the loop
get_changesets_next ==
    /\ walk.pc = "while"
    /\ IF ~Truth(walk.rev)
       THEN walk' = [walk EXCEPT !.pc = "done"]
       ELSE LET chgset == walk.history[Place(walk.history, walk.rev)]
            IN  IF chgset.date < walk.start
                THEN walk' = [walk EXCEPT !.pc = "done"]
                ELSE walk' = [walk EXCEPT
                                 !.yielded = IF Yields(chgset.date, walk.stop)
                                             THEN Append(@, chgset) ELSE @,
                                 !.rev = previous_rev(walk.history, walk.rev)]
    /\ UNCHANGED <<registry, stat, grouped>>

\* ------------------------------------ RepositoryManager.pre_process_request
\* No web request was received.
NoRequest ==
    [pc |-> "idle", tid |-> 0, handler |-> "none", names |-> << >>, i |-> 0,
     log |-> << >>, returned |-> "none"]

\* A thread that has dispatched no request
NotServing ==
    [active |-> FALSE, env |-> FALSE, run_once |-> FALSE, raised |-> FALSE,
     shut |-> FALSE, handled |-> 0]

\* No request was received and no repository history walked
Unserved ==
    /\ request = NoRequest
    /\ serving = [t \in Threads |-> NotServing]

Unasked ==
    /\ stat = [obj |-> NewStats, op |-> "__init__"]
    /\ grouped = NotGrouped
    /\ walk = NotWalking
    /\ Unserved

\* names a [trac] repository_sync_per_request option holds
MaxSyncNames == 3

\* What the request handling leaves alone
RequestFrame ==
    /\ UNCHANGED <<ini, providers_db_first, repository_type, lock, reloads,
                   pc, frame, last>>
    /\ UNCHANGED besides
    /\ UNCHANGED tables
    /\ UNCHANGED <<serving, inputs>>

\* The end of one pass of "for reponame in self.repository_sync_per_request"
NextName(q) ==
    IF q.i < Len(q.names) THEN [q EXCEPT !.i = q.i + 1]
    ELSE [q EXCEPT !.pc = "return"]

\* Variant: the TracError leaves the loop.
OnTracErrorReturn(q) == [q EXCEPT !.pc = "return"]

\* "except TracError, e: add_warning(...)": the pass goes on to log.info and
\* the loop to the next name
OnTracError(q) == NextName(q)

\* One pass for reponame: got is what get_repository returned or raised,
\* sync what repo.sync() does when it is called.
Pass(q, reponame, got, sync) ==
    LET entry == [reponame |-> reponame, lookup |-> got.kind,
                  inst |-> got.inst,
                  sync |-> IF got.kind = "repos" THEN sync ELSE "none"]
        logged == [q EXCEPT !.log = Append(q.log, entry)]
    IN  IF got.kind = "TracError" \/ (got.kind = "repos" /\ sync = "TracError")
        THEN OnTracError(logged)
        ELSE NextName(logged)

\* pre_process_request(req, handler) is entered by thread t:
\* "if handler is not Chrome(self.env)"
pre_process_request_call(t, handler, names) ==
    /\ request.pc \in {"idle", "done"}
    /\ request' = [NoRequest EXCEPT
                      !.pc = IF handler # "Chrome" /\ names # << >>
                             THEN "loop" ELSE "return",
                      !.tid = t, !.handler = handler, !.names = names,
                      !.i = 1]
    /\ UNCHANGED <<repository, all_repositories, cache, connectors_tab,
                   inst>>
    /\ RequestFrame

\* One pass of the loop, lines 338-358
pre_process_request_name(sync) ==
    /\ request.pc = "loop"
    /\ \E reponame \in {Normal(request.names[request.i])} :
       \E r \in {SeqGet(Manager, request.tid, reponame)} :
          /\ Becomes(r.m)
          /\ request' = Pass(request, reponame, r, sync)
    /\ RequestFrame

\* "return handler"
pre_process_request_return ==
    /\ request.pc = "return"
    /\ request' = [request EXCEPT !.pc = "done",
                                  !.returned = request.handler]
    /\ UNCHANGED <<repository, all_repositories, cache, connectors_tab,
                   inst>>
    /\ RequestFrame

\* ------------------------------------------------- web.main.dispatch_request
\* requests one thread dispatches in one behaviour
MaxRequests == 2

\* Variant: shutdown in an else clause, skipped when the dispatch raises.
ShutsDownUnlessRaised(env, run_once, raised) == env /\ ~run_once /\ ~raised

\* "finally: ... if env and not run_once:"
ShutsDown(env, run_once, raised) == env /\ ~run_once

\* dispatch_request(environ, start_response) is entered by thread t: the
\* environment is opened or not, wsgi.run_once is read, and
\* _dispatch_request(req, env, env_error) begins.
dispatch_request_call(t, env, run_once) ==
    /\ pc[t] = "idle"
    /\ ~serving[t].active
    /\ serving[t].handled < MaxRequests
    /\ serving' = [serving EXCEPT ![t] =
                      [active |-> TRUE, env |-> env, run_once |-> run_once,
                       raised |-> FALSE, shut |-> FALSE,
                       handled |-> serving[t].handled]]
    /\ UNCHANGED <<repository, ini, providers_db_first, repository_type,
                   all_repositories, cache, lock, connectors_tab, inst,
                   reloads, pc, frame, last, request>>
    /\ UNCHANGED inputs
    /\ UNCHANGED besides
    /\ UNCHANGED tables

\* env.shutdown(tid) reaches RepositoryManager.shutdown(tid)
EnvShutdown(t) ==
    /\ lock = 0
    /\ cache' = PopCache(cache, t)
    /\ inst' = CloseAll(inst, Repositories(cache, t))

\* _dispatch_request has returned or raised: the finally clause
dispatch_request_finally(t, raised) ==
    /\ pc[t] = "idle"
    /\ serving[t].active
    /\ \E shuts \in {ShutsDown(serving[t].env, serving[t].run_once, raised)} :
          /\ IF shuts THEN EnvShutdown(t) ELSE UNCHANGED <<cache, inst>>
          /\ serving' = [serving EXCEPT ![t].active = FALSE,
                                        ![t].raised = raised,
                                        ![t].shut = shuts,
                                        ![t].handled = @ + 1]
    /\ UNCHANGED <<repository, ini, providers_db_first, repository_type,
                   all_repositories, lock, connectors_tab, reloads, pc,
                   frame, last, request>>
    /\ UNCHANGED inputs
    /\ UNCHANGED besides
    /\ UNCHANGED tables

\* ----------------------------------------------------------- environments
\* [repositories] B.dir = /p, A.alias = B
IniAlias ==
    (NameA :> [alias |-> NameB]) @@ (NameB :> [dir |-> DirP])

\* [repositories] B.dir = /p, A.alias = B, B.alias = A
IniCross ==
    (NameA :> [alias |-> NameB]) @@ (NameB :> [dir |-> DirP, alias |-> NameA])

\* [repositories] B.dir = r, B.type = hg
IniHg == (NameB :> [dir |-> DirRel, type |-> Hg])

\* no [repositories] section and no repository_dir
IniNone == EmptyMap

Env(i, d, ty) == [ini |-> i, db_first |-> d, repository_type |-> ty]

\* The environments the manager is started in.
Environments ==
    { Env(IniAlias, TRUE, Svn), Env(IniAlias, FALSE, Git),
      Env(IniCross, TRUE, Svn), Env(IniHg, FALSE, Svn),
      Env(IniNone, TRUE, Svn) }

\* RepositoryManager.__init__ in environment e, the table empty
Started(e) ==
    /\ repository = << >>
    /\ ini = e.ini
    /\ providers_db_first = e.db_first
    /\ repository_type = e.repository_type
    /\ all_repositories = NoneAll
    /\ cache = EmptyMap
    /\ lock = 0
    /\ connectors_tab = [built |-> FALSE, tab |-> EmptyMap]
    /\ inst = << >>
    /\ reloads = 0
    /\ pc = [t \in Threads |-> "idle"]
    /\ frame = [t \in Threads |-> IdleFrame]
    /\ last = [t \in Threads |-> NoCall]

\* ... with the svn and hg connectors registered
InitIn(e) == Started(e) /\ connectors = Connectors

\* No changesets are known, no path was looked up, no notify is under way.
NoChangesets == EmptyMap

\* The history cache is empty and no provider operation was called.
NoHistory ==
    /\ revision = {}
    /\ node_change = {}
    /\ db_call = NotCalled

Untouched ==
    /\ NoHistory
    /\ Unasked
    /\ by_path = NoLookup
    /\ changesets = NoChangesets
    /\ notifying = NotNotifying
    /\ calls = << >>

Init == \E e \in Environments : InitIn(e) /\ Untouched

\* The steps every thread takes inside a call it has entered
Step(t) ==
    \/ get_all_repositories_hit(t)
    \/ get_all_repositories_compute(t)
    \/ get_all_repositories_assign(t)
    \/ get_all_repositories_none(t)
    \/ get_repository_resolve(t)
    \/ get_repository_cached(t)
    \/ get_repository_construct(t)
    \/ provider_reload(t)

\* Worker threads look repositories up, reload and shut down while one of
\* them registers a repository.
Next ==
    \E t \in Threads :
        \/ Step(t)
        \/ \E n \in {NameA, NameB} : get_repository_call(t, n)
        \/ reloads + PendingReloads < MaxReloads /\ reload_repositories(t)
        \/ shutdown(t)
        \/ reloads + PendingReloads < MaxReloads
              /\ add_repository(t, NameA, DirQ, Empty)

Spec == Init /\ [][Next]_vars

\* The steps of a thread that runs alone: no reload can fall between the
\* statements of its lookups.
SeqStep(t) ==
    \/ get_all_repositories_hit(t)
    \/ get_all_repositories_assign(t)
    \/ get_repository_resolve(t)
    \/ get_repository_cached(t)
    \/ get_repository_construct(t)
    \/ provider_reload(t)

\* One thread (an administration session) uses the provider and the manager.
InitDb ==
    \E e \in {Env(IniNone, TRUE, Svn), Env(IniAlias, FALSE, Git)} :
        InitIn(e) /\ Untouched

DbOp(t) ==
    \/ \E n \in {NameA, DefaultLabel}, d \in {DirP, DirRel},
          ty \in {Empty, Svn, Hg, Git} : add_repository(t, n, d, ty)
    \/ \E n \in {NameA, NameB} :
          add_alias(t, n, IF n = NameA THEN NameB ELSE NameA)
    \/ remove_repository(t, NameA)
    \/ \E n \in {NameA, NameB},
          ch \in {<< <<"name", NameB>> >>, << <<"alias", NameB>> >>,
                  << <<"type", Git>>, <<"dir", DirRel>> >>,
                  << <<"dir", DirQ>>, <<"colour", Empty>> >>} :
          modify_repository(t, n, ch)

NextDb ==
    \/ SeqStep(1)
    \/ \E n \in {Empty, NameA, NameB} : get_repository_call(1, n)
    \/ reloads < MaxDbOps /\ reload_repositories(1)
    \/ shutdown(1)
    \/ reloads < MaxDbOps /\ DbOp(1)

SpecDb == InitDb /\ [][NextDb]_vars

\* Paths are split against registered names: '', a, ab, a/b and the
\* spellings /a and a/ of a name with a slash at an end.
NamePool ==
    { Empty, <<"a">>, <<"a", "b">>, <<"a", "/", "b">>, <<"/", "a">>,
      <<"a", "/">> }

PathChars == {"a", "b", "/"}

Paths == UNION {[1..k -> PathChars] : k \in 0..MaxPathLen}

\* [repositories] <n>.dir = /p for every n in names
IniOf(names) == [n \in names |-> [dir |-> DirP]]

InitPath ==
    \E names \in {S \in SUBSET NamePool : Cardinality(S) <= MaxNames} :
        InitIn(Env(IniOf(names), TRUE, Svn)) /\ Untouched

NextPath ==
    \E path \in Paths :
        Len(inst) < MaxInst /\ get_repository_by_path(1, path)

SpecPath == InitPath /\ [][NextPath]_vars

\* [repositories] A.dir = /p, B.dir = /p, .dir = /q: A and B share a base
IniShared ==
    (NameA :> [dir |-> DirP]) @@ (NameB :> [dir |-> DirP])
        @@ (Empty :> [dir |-> DirQ])

\* [repositories] A.dir = /p, B.dir = /p, B.type = hg
IniMixed ==
    (NameA :> [dir |-> DirP]) @@ (NameB :> [dir |-> DirP, type |-> Hg])

BaseP == Svn \o <<":">> \o DirP
BaseQ == Svn \o <<":">> \o DirQ

RevLists == UNION {[1..k -> Revs] : k \in 0..MaxRevs}

\* A hook reports changesets to an environment whose repositories hold some
\* of the revisions and can fetch some.
InitNotify ==
    /\ \E i \in {IniShared, IniAlias, IniMixed} : InitIn(Env(i, TRUE, Svn))
    /\ NoHistory
    /\ Unasked
    /\ by_path = NoLookup
    /\ notifying = NotNotifying
    /\ calls = << >>
    /\ \E hp, hq, f \in SUBSET Revs :
          changesets = (BaseP :> [have |-> hp, fetch |-> f])
                          @@ (BaseQ :> [have |-> hq, fetch |-> f])

NextNotify ==
    \/ \E event \in {"changeset_added", "changeset_modified"},
          reponame \in {NameA, NameB, Empty, DirP, BaseP},
          revs \in RevLists : notify_call(1, event, reponame, revs)
    \/ notify_by_dir
    \/ notify_real
    \/ notify_sync
    \/ notify_rev

SpecNotify == InitNotify /\ [][NextNotify]_vars

\* --------------------------------------------- synchronizing per request
\* The values of repository_sync_per_request
SyncNames ==
    UNION {[1..k -> {NameA, NameB, DefaultLabel}] : k \in 0..MaxSyncNames}

InitRequest == InitIn(Env(IniMixed, TRUE, Svn)) /\ Untouched

NextRequest ==
    \/ \E handler \in {"Chrome", "Timeline"}, names \in SyncNames :
          pre_process_request_call(1, handler, names)
    \/ \E sync \in {"ok", "TracError"} : pre_process_request_name(sync)
    \/ pre_process_request_return

SpecRequest == InitRequest /\ [][NextRequest]_vars

\* ------------------------------------------------------- chains of aliases
\* provider operations in one behaviour of the alias specification
MaxAliasOps == 3

InitAlias == InitIn(Env(IniNone, TRUE, Svn)) /\ Untouched

NextAlias ==
    \/ SeqStep(1)
    \/ \E n \in {NameA, NameB, NameC} : get_repository_call(1, n)
    \/ /\ reloads < MaxAliasOps
       /\ \/ \E n \in {NameA, NameB}, target \in {NameA, NameB, NameC} :
                add_alias(1, n, target)
          \/ add_repository(1, NameC, DirP, Empty)

SpecAlias == InitAlias /\ [][NextAlias]_vars

\* ---------------------------------------------------- requests by threads
InitDispatch == InitIn(Env(IniAlias, TRUE, Svn)) /\ Untouched

\* What a thread does for a request whose environment was opened
Serves(t) ==
    /\ serving[t].active
    /\ serving[t].env
    /\ \/ Step(t)
       \/ get_repository_call(t, NameA)
       \/ reloads < MaxReloads /\ reload_repositories(t)

NextDispatch ==
    \E t \in Threads :
        \/ \E env, run_once \in BOOLEAN : dispatch_request_call(t, env, run_once)
        \/ Serves(t)
        \/ \E raised \in BOOLEAN : dispatch_request_finally(t, raised)

SpecDispatch == InitDispatch /\ [][NextDispatch]_vars

\* --------------------------------------------------- registered connectors
\* connectors registered
MaxConnectors == 2
\* (type, priority) pairs one connector yields
MaxTypes == 2

\* The priorities connectors report: unusable, lowest usable, higher
Priorities == {-1, 0, 4}

TypeLists ==
    UNION {[1..k -> {<<ty, p>> : ty \in {Svn, Hg}, p \in Priorities}] :
              k \in 0..MaxTypes}

Registrations ==
    UNION {[1..k -> {[types |-> l] : l \in TypeLists}] :
              k \in 0..MaxConnectors}

InitConnectors ==
    /\ Started(Env(IniMixed, TRUE, Svn))
    /\ connectors \in Registrations
    /\ Untouched

NextConnectors ==
    \/ get_all_repositories_assign(1)
    \/ get_repository_resolve(1)
    \/ get_repository_cached(1)
    \/ get_repository_construct(1)
    \/ \E n \in {NameA, NameB} : get_repository_call(1, n)

SpecConnectors == InitConnectors /\ [][NextConnectors]_vars

\* ------------------------------------------------------- ticket statistics
InitStats == InitIn(Env(IniNone, TRUE, Svn)) /\ Untouched

NextStats ==
    \/ \E count \in 0..MaxCount, overall_completion \in BOOLEAN :
          add_interval_call(count, overall_completion)
    \/ refresh_calcs_call

SpecStats == InitStats /\ [][NextStats]_vars

\* --------------------------------------------------------- milestone groups
\* The names of the groups in the order of their 'order' options
GroupNames == <<"a", "b", "c", "d", "e">>

\* What the section can say of the group called name: a status that is '*',
\* one status, or '*' among others; or options but no status at all
GroupOptions(name) ==
    {[name |-> name, declared |-> TRUE, status |-> st,
      overall_completion |-> o] :
        st \in {Star, <<"new">>, <<"closed">>, <<"*", "new">>},
        o \in BOOLEAN}
    \cup {[name |-> name, declared |-> FALSE, status |-> << >>,
            overall_completion |-> FALSE]}

GroupLists ==
    UNION {{g \in [1..k -> UNION {GroupOptions(GroupNames[i]) : i \in 1..k}] :
               \A i \in 1..k : g[i].name = GroupNames[i]} :
              k \in 0..MaxGroups}

\* The section and the tickets counted are those of the environment
InitGroups ==
    /\ InitIn(Env(IniNone, TRUE, Svn))
    /\ NoHistory
    /\ by_path = NoLookup
    /\ changesets = NoChangesets
    /\ notifying = NotNotifying
    /\ calls = << >>
    /\ Unserved
    /\ walk = NotWalking
    /\ stat = [obj |-> NewStats, op |-> "__init__"]
    /\ \E groups \in GroupLists, status_cnt \in [AllStatuses -> 0..MaxTickets] :
          grouped = [NotGrouped EXCEPT !.groups = groups,
                                       !.status_cnt = status_cnt]

NextGroups == get_ticket_group_stats_call

SpecGroups == InitGroups /\ [][NextGroups]_vars

\* ------------------------------------------------------ walks of a history
\* Histories of k changesets: the oldest is revision 0 or 1, the dates are
\* any
Histories ==
    UNION {{[i \in 1..k |-> [rev |-> k - i + first, date |-> dates[i]]] :
               first \in 0..1, dates \in [1..k -> 0..MaxDate]} :
              k \in 0..MaxChain}

InitWalk ==
    /\ InitIn(Env(IniNone, TRUE, Svn))
    /\ NoHistory
    /\ by_path = NoLookup
    /\ changesets = NoChangesets
    /\ notifying = NotNotifying
    /\ calls = << >>
    /\ Unserved
    /\ stat = [obj |-> NewStats, op |-> "__init__"]
    /\ grouped = NotGrouped
    /\ \E history \in Histories, start, stop \in 0..(MaxDate + 1) :
          walk = [NotWalking EXCEPT !.pc = "created", !.history = history,
                                    !.start = start, !.stop = stop]

NextWalk == get_changesets_call \/ get_changesets_next

\* The consumer of the generator asks for changesets until it is exhausted
SpecWalk == InitWalk /\ [][NextWalk]_vars /\ WF_vars(NextWalk)

\* ------------------------------------------------------ the table alone
\* provider operations in one behaviour of the table specification
MaxTableOps == 3

\* An administration session fills and changes the table; cached
\* repositories store history meanwhile.
InitTable == InitIn(Env(IniNone, TRUE, Svn)) /\ Untouched

TableOp(t) ==
    \/ \E n \in {NameA, NameB}, d \in {DirP, DirRel}, ty \in {Empty, Hg} :
          add_repository(t, n, d, ty)
    \/ \E n \in {NameA, NameB} :
          add_alias(t, n, IF n = NameA THEN NameB ELSE NameA)
    \/ \E n \in {NameA, NameB} : remove_repository(t, n)
    \/ \E n \in {NameA, NameB},
          ch \in {<< <<"name", NameA>> >>, << <<"name", NameB>> >>,
                  << <<"dir", DirQ>> >>,
                  << <<"type", Hg>>, <<"dir", DirRel>> >>} :
          modify_repository(t, n, ch)

NextTable ==
    \/ reloads < MaxTableOps /\ TableOp(1)
    \/ provider_reload(1)
    \/ \E n \in {NameA, NameB} : get_repository_id_call(1, n)
    \/ \E id \in 1..2 : revision = {} /\ sync_cached(id, 1)

SpecTable == InitTable /\ [][NextTable]_vars

\* ------------------------------------------------------- ids, concurrently
\* provider operations in one behaviour of the id specification
MaxIdOps == 1

\* The ini provider comes first, so the lookups allocate the ids of A and B.
InitIds == InitIn(Env(IniAlias, FALSE, Svn)) /\ Untouched

\* Worker threads look repositories up and ask for ids while the table is
\* written to.
NextIds ==
    \E t \in Threads :
        \/ Step(t)
        \/ get_repository_call(t, NameA)
        \/ \E n \in {NameA, NameB, Empty} : get_repository_id_call(t, n)
        \/ /\ reloads + PendingReloads < MaxIdOps
           /\ \/ \E n \in {NameA, Empty} : add_repository(t, n, DirP, Empty)
              \/ add_alias(t, NameB, NameA)
              \/ modify_repository(t, Empty, << <<"dir", DirQ>> >>)

SpecIds == InitIds /\ [][NextIds]_vars

\* ================================================================ properties
\* Some registered connector reports type ty with a priority that is not
\* negative.
ConnectorUsable(ty) ==
    \E k \in 1..Len(connectors) : \E i \in 1..Len(connectors[k].types) :
        /\ connectors[k].types[i][1] = ty
        /\ connectors[k].types[i][2] >= 0

\* Thread t's latest finished call is a get_repository, and t has not started
\* anything since.
Looked(t) == last[t].op = "get_repository" /\ pc[t] = "idle"

\* ... and the call t finished before it was a successful
\* add_repository of the name looked up.
AddedThenLooked(t) ==
    /\ Looked(t)
    /\ last[t].after.op = "add_repository"
    /\ last[t].after.kind = "ok"
    /\ last[t].arg = last[t].after.key

\* The lookup returned a backend whose reponame is the name asked for.
ReturnedNamed(t) ==
    /\ last[t].kind = "repos"
    /\ inst[last[t].inst].reponame = last[t].arg

\* What makes the registration of `name` effective: the table's entry of the
\* name carries no alias, its type (or the default type) has a usable
\* connector, and no provider asked earlier supplies the name.
Effective(name) ==
    /\ name \in DOMAIN DbGetRepositories(repository)
    /\ "alias" \notin DOMAIN DbGetRepositories(repository)[name]
    /\ ConnectorUsable(EffectiveType(DbGetRepositories(repository)[name],
                                     repository_type))
    /\ (providers_db_first \/ name \notin DOMAIN ini)

LookedTwice(t) ==
    last[t].op = "get_repository" /\ last[t].after.op = "get_repository"

\* The lookup rec returned to its caller rather than raising.
Returned(rec) == rec.kind \in {"repos", "None"}

\* The lookup rec found its name configured as an alias of `target`, and the
\* target's entry with a dir.
SawAliasOf(rec, target) ==
    /\ "alias" \in DOMAIN rec.cfg1
    /\ rec.cfg1["alias"] = target
    /\ rec.key = target
    /\ HasDir(rec.cfg)

\* The lookup rec found its own name configured with a dir.
SawDir(rec) == HasDir(rec.cfg1)

\* rA looked up a name configured as an alias of the name rB looked up, whose
\* entry has a dir.
AliasAndTarget(rA, rB) ==
    /\ rA.arg # rB.arg
    /\ SawAliasOf(rA, rB.arg)
    /\ SawDir(rB)

\* Both lookups returned the same backend.
SameBackend(r1, r2) ==
    /\ r1.kind = "repos"
    /\ r2.kind = "repos"
    /\ r1.inst = r2.inst

\* C2 as stated: with A an alias of B and B configured with a dir,
\* get_repository('A') and get_repository('B') made by one thread, in either
\* order and with no reload or shutdown between, return the same backend.
C2_AsStated ==
    \A t \in Threads :
        LET r2 == last[t]
            r1 == last[t].after
        IN  ( /\ LookedTwice(t)
              /\ (AliasAndTarget(r1, r2) \/ AliasAndTarget(r2, r1))
              /\ Returned(r1) /\ Returned(r2) )
            => SameBackend(r1, r2)

\* C2, amended: ... and B's entry has no alias of its own: then both lookups
\* return the same backend, in either order.
C2_AliasSameBackend ==
    \A t \in Threads :
        LET r2 == last[t]
            r1 == last[t].after
        IN  ( /\ LookedTwice(t)
              /\ \/ AliasAndTarget(r1, r2) /\ "alias" \notin DOMAIN r2.cfg1
                 \/ AliasAndTarget(r2, r1) /\ "alias" \notin DOMAIN r1.cfg1
              /\ Returned(r1) /\ Returned(r2) )
            => SameBackend(r1, r2)

\* C2's case: B was looked up first and constructed; the lookup of its alias
\* A then returned the cached backend.
C2_Witness ==
    /\ LookedTwice(1)
    /\ AliasAndTarget(last[1], last[1].after)
    /\ "alias" \notin DOMAIN last[1].after.cfg1
    /\ last[1].after.built
    /\ SameBackend(last[1].after, last[1])

\* C3: shutdown(tid) closes every backend cached for the thread and removes
\* the thread's dict from the cache; the thread's next get_repository
\* constructs a backend instead of returning one that existed before.
C3_ShutdownClosesAndForgets ==
    \A t \in Threads :
        /\ last[t].op = "shutdown"
              => /\ t \notin DOMAIN cache
                 /\ \A i \in last[t].popped : inst[i].closed
        /\ ( /\ last[t].op = "get_repository"
             /\ last[t].after.op = "shutdown"
             /\ last[t].kind = "repos" )
              => /\ last[t].built
                 /\ last[t].inst > last[t].after.inst
                 /\ ~inst[last[t].inst].closed

\* C3's case: a shutdown closed a cached backend and the next lookup
\* constructed another.
C3_Witness ==
    /\ last[1].op = "get_repository"
    /\ last[1].after.op = "shutdown"
    /\ last[1].after.popped # {}
    /\ last[1].kind = "repos"
    /\ last[1].arg = NameB

\* C4: no backend is returned to two threads or held in the cache slots of
\* two threads: every backend is cached for, and returned to, only the
\* thread it was constructed for.
C4_NoSharedBackend ==
    /\ \A t \in DOMAIN cache : \A n \in DOMAIN cache[t] :
          inst[cache[t][n]].tid = t
    /\ \A t \in Threads :
          last[t].op = "get_repository" /\ last[t].kind = "repos"
             => inst[last[t].inst].tid = t
    /\ \A t, u \in DOMAIN cache :
          t # u => Backends(cache[t]) \cap Backends(cache[u]) = {}

\* C4's case: both threads hold a backend for the same name.
C4_Witness ==
    /\ DOMAIN cache = Threads
    /\ \A t \in Threads : NameB \in DOMAIN cache[t]
    /\ \A t \in Threads : last[t].kind = "repos"

\* C5: a lookup that starts after reload_repositories() has returned uses
\* only configuration read, and backends constructed from configuration
\* read, after that reload.
C5_NothingFromBeforeReload ==
    \A t \in Threads :
        last[t].op = "get_repository"
           => /\ last[t].kind \in {"repos", "None", "TracError"}
                    => last[t].cfgGen >= last[t].startGen
              /\ last[t].kind = "repos"
                    => inst[last[t].inst].gen >= last[t].startGen
              /\ last[t].kind # "AttributeError"

\* C6: two get_repository(name) by one thread with no reload since the first
\* began and no shutdown of the thread between them return the same backend,
\* and the second of two lookups resolving to the same name constructs
\* nothing.
C6_SameBackendTwice ==
    \A t \in Threads :
        ( /\ LookedTwice(t)
          /\ last[t].after.startGen = reloads
          /\ last[t].after.kind = "repos" )
           => /\ last[t].arg = last[t].after.arg
                    => SameBackend(last[t].after, last[t])
              /\ last[t].key = last[t].after.key => ~last[t].built

\* The effective type of the entry the lookup rec resolved to
TypeSeen(rec) == EffectiveType(rec.cfg, repository_type)

\* C10: get_repository for a real repository whose effective type has no
\* connector of non-negative priority raises TracError carrying the type
\* name, caches no backend for the name and leaves the lock free; the same
\* lookup made again raises again.
C10_UnsupportedTypeRaises ==
    \A t \in Threads :
        last[t].op = "get_repository" /\ HasDir(last[t].cfg)
           => /\ ~ConnectorUsable(TypeSeen(last[t]))
                 => /\ last[t].kind = "TracError"
                    /\ last[t].err = TypeSeen(last[t])
                    /\ last[t].key \notin DOMAIN Repositories(cache, t)
                    /\ lock = 0
              /\ last[t].kind = "TracError"
                 => /\ ~ConnectorUsable(TypeSeen(last[t]))
                    /\ last[t].err = TypeSeen(last[t])

\* C10's case: the same lookup raised TracError twice in a row.
C10_Witness ==
    /\ LookedTwice(1)
    /\ last[1].kind = "TracError"
    /\ last[1].after.kind = "TracError"
    /\ last[1].arg = last[1].after.arg
    /\ last[1].err = Hg

\* The registered name `name` is a whole-component prefix of `path`, slashes
\* at the ends of either not counting.
WholePrefix(name, path) ==
    LET n == Strip(name)
        p == Strip(path)
    IN  \/ n = << >>
        \/ p = n
        \/ /\ Len(p) > Len(n)
           /\ SubSeq(p, 1, Len(n)) = n
           /\ p[Len(n) + 1] = "/"

Candidates(names, path) == {n \in names : WholePrefix(n, path)}

\* `path` with the prefix `name` and the slash after it removed, '/' when
\* nothing remains
Remainder(name, path) ==
    LET n == Strip(name)
        p == Strip(path)
        rest == IF n = << >> THEN p ELSE SubSeq(p, Len(n) + 2, Len(p))
    IN  IF rest = << >> THEN <<"/">> ELSE rest

\* C7: get_repository_by_path(path) attributes the path to a registered name
\* that is a whole-component prefix of it and of which no longer one exists
\* ('' when no registered name is such a prefix), and the remainder is the
\* path with that prefix removed, '/' when nothing remains.
C7_LongestPrefix ==
    by_path.asked /\ by_path.kind # "TracError"
       => LET cands == Candidates(DOMAIN ini, by_path.arg)
          IN  /\ cands = {} => by_path.reponame = Empty
              /\ cands # {}
                    => /\ by_path.reponame \in cands
                       /\ \A c \in cands :
                             Len(Strip(c)) <= Len(Strip(by_path.reponame))
              /\ by_path.path = Remainder(by_path.reponame, by_path.arg)

\* C7's case: with '', a and a/b registered, a/b is attributed to a/b with
\* nothing remaining.
C7_Witness ==
    /\ by_path.asked
    /\ {Empty, <<"a">>, <<"a", "/", "b">>} \subseteq DOMAIN ini
    /\ by_path.arg = <<"a", "/", "b">>
    /\ by_path.reponame = <<"a", "/", "b">>
    /\ by_path.path = <<"/">>
    /\ by_path.kind = "repos"

\* ------------------------------------------------------------------ notify
\* The backends notify has called sync() on
Synced == {calls[k][2] : k \in {j \in 1..Len(calls) : calls[j][1] = "sync"}}

\* The backend a call of the log is made on or about
RepoOf(c) == IF c[1] = "listener" THEN c[4] ELSE c[2]

\* The revisions listener l was called with for backend i, in the order of
\* the calls
ListenerRevs(l, i) ==
    LET Hit(c) == c[1] = "listener" /\ c[2] = l /\ c[3] = notifying.event
                     /\ c[4] = i
        hits == SelectSeq(calls, Hit)
    IN  [k \in 1..Len(hits) |-> hits[k][5]]

\* Backend i has no changeset for rev and a resync cannot fetch one
Missing(i, rev) ==
    rev \notin changesets[inst[i].name].have
                 \cup changesets[inst[i].name].fetch

\* The entries of revs whose changeset backend i finds, in the order of revs
FoundRevs(i) ==
    LET Found(rev) == ~Missing(i, rev)
    IN  SelectSeq(notifying.revs, Found)

\* The configured names that are real repositories of the given base: no
\* alias, a directory, a usable connector, and "type:dir" equal to the base
SharingBase(base) ==
    {n \in DOMAIN ini :
        /\ "alias" \notin DOMAIN ini[n]
        /\ HasDir(ini[n])
        /\ ConnectorUsable(EffectiveType(ini[n], repository_type))
        /\ EffectiveType(ini[n], repository_type) \o <<":">>
               \o AbsDir(ini[n]["dir"]) = base}

\* notify has returned after its loop over the repositories
Notified ==
    /\ notifying.pc = "done"
    /\ notifying.outcome = "returned"
    /\ Synced # {}

\* C8: when notify has gone through a repository in which a revision of revs
\* has no changeset and the resync does not make it available, notify has not
\* raised, no listener was called for that repository and revision, and every
\* other entry of revs was still looked up in that repository and, when
\* found, reported to every listener.
C8_MissingRevisionSkipped ==
    (notifying.pc = "done" /\ Synced # {}) =>
        /\ notifying.outcome = "returned"
        /\ \A i \in Synced : \A k \in 1..Len(notifying.revs) :
              Missing(i, notifying.revs[k]) =>
                /\ \A j \in 1..Len(calls) :
                      ~(/\ calls[j][1] = "listener"
                        /\ calls[j][4] = i
                        /\ calls[j][5] = notifying.revs[k])
                /\ \A k2 \in 1..Len(notifying.revs) :
                      /\ \E j \in 1..Len(calls) :
                            /\ calls[j][1] = "get_changeset"
                            /\ calls[j][2] = i
                            /\ calls[j][3] = notifying.revs[k2]
                      /\ ~Missing(i, notifying.revs[k2]) =>
                            \A l \in 1..Len(Listeners) :
                              \E j \in 1..Len(ListenerRevs(Listeners[l], i)) :
                                ListenerRevs(Listeners[l], i)[j]
                                    = notifying.revs[k2]

C8_Witness ==
    /\ Notified
    /\ notifying.event = "changeset_added"
    /\ notifying.revs = <<1, 2>>
    /\ \E i \in Synced :
          /\ Missing(i, 1)
          /\ ~Missing(i, 2)
          /\ ListenerRevs("mailer", i) = <<2>>

\* C9: a notify on a name get_repository resolves calls sync() exactly once
\* on the resolved backend and on the backend of every real repository of
\* its base and on no other; sync() of a backend precedes every changeset
\* lookup and listener call for it; and once notify has returned, every
\* listener has been called, for each of these backends, once per entry of
\* revs whose changeset is found, in the order of revs.
C9_SyncThenListeners ==
    notifying.repos # 0 =>
        /\ \A k \in 1..Len(calls) :
              IF calls[k][1] = "sync"
              THEN \A j \in 1..Len(calls) :
                      (calls[j][1] = "sync" /\ calls[j][2] = calls[k][2])
                          => j = k
              ELSE \E j \in 1..(k - 1) :
                      calls[j][1] = "sync" /\ calls[j][2] = RepoOf(calls[k])
        /\ notifying.pc = "done" =>
              /\ notifying.outcome = "returned"
              /\ notifying.repos \in Synced
              /\ {inst[i].reponame : i \in Synced}
                    = SharingBase(inst[notifying.repos].name)
              /\ Cardinality(Synced)
                    = Cardinality(SharingBase(inst[notifying.repos].name))
              /\ \A i \in Synced : \A l \in 1..Len(Listeners) :
                    ListenerRevs(Listeners[l], i) = FoundRevs(i)

C9_Witness ==
    /\ Notified
    /\ notifying.repos # 0
    /\ Cardinality(DOMAIN ini) = 3
    /\ Cardinality(Synced) = 2
    /\ notifying.revs = <<2, 1>>
    /\ \A i \in Synced : ListenerRevs("ticket_updater", i) = <<2, 1>>

\* ----------------------------------------------------------- no directory
\* The record configured for name n in the merged configuration in force
ConfiguredFor(n) ==
    IF n \in DOMAIN all_repositories.repos THEN all_repositories.repos[n]
    ELSE EmptyMap

\* No directory is configured for name n: the name is unknown, or it is an
\* alias whose target has no dir, or its own record has no dir
NoDirectoryFor(n) ==
    LET own == ConfiguredFor(n)
        target == IF "alias" \in DOMAIN own THEN ConfiguredFor(own["alias"])
                  ELSE own
    IN  ~("dir" \in DOMAIN target /\ target["dir"] # Empty)

\* Thread t takes a step of a get_repository call
LookupStep(t) ==
    /\ <<pc[t], frame[t]>> # <<pc[t], frame[t]>>'
    /\ frame[t].op = "get_repository" \/ frame'[t].op = "get_repository"

\* C11: a get_repository(name) of a caller running alone returns None when
\* no directory is configured for the name; a call that returns None returns
\* before the locked part, and every step of a lookup before the locked part
\* leaves the connector table, the backends and the per-thread cache as they
\* were.
C11_NoDirReturnsNone ==
    [][\A t \in Threads :
          LookupStep(t) =>
            /\ pc[t] # "gr_lock"
                  => UNCHANGED <<cache, inst, connectors_tab>>
            /\ (pc'[t] = "idle" /\ NoDirectoryFor(frame[t].arg))
                  => last'[t].kind = "None"
            /\ (pc'[t] = "idle" /\ last'[t].kind = "None")
                  => /\ pc[t] # "gr_lock"
                     /\ NoDirectoryFor(frame[t].arg)]_vars

\* C11's case: with backends cached, a lookup of a name that is not
\* configured, and one of an alias whose target has no dir, returned None.
C11_Witness ==
    /\ last[1].op = "get_repository"
    /\ last[1].kind = "None"
    /\ pc[1] = "idle"
    /\ DOMAIN Repositories(cache, 1) # {}
    /\ \/ last[1].arg \notin DOMAIN all_repositories.repos
       \/ "alias" \in DOMAIN last[1].cfg1

\* ------------------------------------------------------ get_all_repositories
\* C12: the merged configuration holds every name some provider yields, once,
\* with the record of the first provider that yields it, tagged with the name
\* and with an id: the provider's own, or the id the table holds for the name.
C12_FirstProviderWins ==
    (~all_repositories.none /\ all_repositories.gen = reloads
        /\ PendingReloads = 0) =>
        LET db == DbGetRepositories(repository)
            all == all_repositories.repos
            FromDb(n) == n \in DOMAIN db
                            /\ (providers_db_first \/ n \notin DOMAIN ini)
            Given(n) == IF FromDb(n) THEN db[n] ELSE ini[n]
        IN  /\ DOMAIN all = DOMAIN db \cup DOMAIN ini
            /\ \A n \in DOMAIN all :
                  /\ DOMAIN all[n] = DOMAIN Given(n) \cup {"name", "id"}
                  /\ all[n]["name"] = n
                  /\ \A k \in DOMAIN Given(n) \ {"name", "id"} :
                        all[n][k] = Given(n)[k]
                  /\ IF FromDb(n) THEN all[n]["id"] = db[n]["id"]
                     ELSE \E i \in 1..Len(repository) :
                             /\ repository[i].name = "name"
                             /\ repository[i].value = n
                             /\ repository[i].id = all[n]["id"]

\* C12's case: the table and the ini section both configure A, the table's
\* provider comes first and its record is the one kept.
C12_Witness ==
    /\ ~all_repositories.none
    /\ all_repositories.gen = reloads
    /\ PendingReloads = 0
    /\ providers_db_first
    /\ NameA \in DOMAIN DbGetRepositories(repository) \cap DOMAIN ini
    /\ "alias" \in DOMAIN ini[NameA]
    /\ all_repositories.repos[NameA]["dir"] = DirQ

\* C13: between two reloads the providers are read at most once, whatever
\* they yield, and every get_all_repositories() returns a mapping read since
\* the latest reload: no thread reads the providers when a mapping was
\* assigned, or is about to be assigned, since the latest reload.
C13_ProvidersReadOnce ==
    [][\A t \in Threads :
          /\ (pc[t] # "gar_assign" /\ pc'[t] = "gar_assign")
                => /\ all_repositories.none
                   /\ \A u \in Threads \ {t} :
                         ~(pc[u] = "gar_assign" /\ frame[u].lgen = reloads)
          /\ (pc[t] = "gar_ret" /\ pc'[t] # "gar_ret"
                 /\ ~all_repositories.none)
                => all_repositories.gen = reloads]_vars

\* ------------------------------------------------------- add_repository
\* The step is a call of the provider operation op by thread t
ProviderCall(t, op) ==
    /\ db_call' # db_call
    /\ db_call'.tid = t
    /\ db_call'.op = op

\* The arguments fail one of add_repository's two checks
BadArguments(dir, type_) ==
    \/ dir = << >>
    \/ Head(dir) # "/"
    \/ type_ # << >> /\ ~ConnectorUsable(type_)

\* C14: add_repository with a directory that is not absolute, or a non-empty
\* type no connector supports, raises TracError and leaves the repository,
\* revision and node_change tables, the merged configuration and the
\* per-thread cache as they were; with other arguments it goes on to write.
C14_InvalidAddWritesNothing ==
    [][\A t \in Threads :
          ProviderCall(t, "add_repository") =>
            IF BadArguments(db_call'.dir, db_call'.type_)
            THEN /\ pc'[t] = "idle"
                 /\ last'[t].op = "add_repository"
                 /\ last'[t].kind = "TracError"
                 /\ UNCHANGED <<repository, revision, node_change,
                                all_repositories, cache, reloads>>
            ELSE pc'[t] = "db_reload"]_vars

\* C14's case: with a repository registered and its backend cached, an
\* add_repository with a type that is not supported raised.
C14_Witness ==
    /\ db_call.op = "add_repository"
    /\ db_call.type_ = Hg
    /\ db_call.dir = DirP
    /\ last[1].op = "add_repository"
    /\ last[1].kind = "TracError"
    /\ repository # << >>
    /\ DOMAIN Repositories(cache, 1) # {}

\* The rows of `table` that carry id
RowsOf(table, id) == {i \in 1..Len(table) : table[i].id = id}

\* The ids that carry a 'name' row with value reponame
IdsNamed(table, reponame) ==
    {table[i].id : i \in NameRows(table, reponame)}

\* C15: after a successful add_repository(name, dir, type) the name has one
\* id and the table holds exactly three rows for it, one 'name', one 'dir'
\* and one 'type' row, whatever the table held before the call.
C15_ThreeRowsAfterAdd ==
    \A t \in Threads :
        (last[t].op = "add_repository" /\ last[t].kind = "ok"
            /\ pc[t] = "idle") =>
            /\ Cardinality(IdsNamed(repository, last[t].key)) = 1
            /\ \A id \in IdsNamed(repository, last[t].key) :
                  /\ Cardinality(RowsOf(repository, id)) = 3
                  /\ \A a \in {"name", "dir", "type"} :
                        \E i \in RowsOf(repository, id) :
                            repository[i].name = a

\* ------------------------------------------------------ remove_repository
\* The rows of `table` whose id is not in ids
RowsBeside(table, ids) == SelectSeq(table, LAMBDA r : r.id \notin ids)

\* C16: remove_repository(name) leaves no row of the name's id in the
\* repository, revision and node_change tables, leaves the rows of every
\* other id as they were, and the provider then no longer yields the name.
C16_RemoveDeletesId ==
    [][\A t \in Threads :
          ProviderCall(t, "remove_repository") =>
            LET name == Normal(db_call'.reponame)
                ids == IdsNamed(repository, name)
            IN  /\ \A id \in ids :
                      /\ RowsOf(repository', id) = {}
                      /\ \A r \in revision' \cup node_change' : r.repos # id
                /\ RowsBeside(repository', ids) = RowsBeside(repository, ids)
                /\ revision' = {r \in revision : r.repos \notin ids}
                /\ node_change' = {r \in node_change : r.repos \notin ids}
                /\ name \notin DOMAIN DbGetRepositories(repository')]_vars

\* ------------------------------------------------------------- the caches
\* A provider operation that writes has been called and has finished
Mutated ==
    /\ db_call.op \in {"add_repository", "add_alias", "modify_repository",
                        "remove_repository"}
    /\ last[db_call.tid].op = db_call.op
    /\ last[db_call.tid].kind = "ok"
    /\ PendingReloads = 0

\* C17: once an add_repository, add_alias, modify_repository or
\* remove_repository has succeeded, a merged configuration that is served was
\* computed after it, and for every name not supplied by an earlier provider
\* it holds what DbRepositoryProvider.get_repositories() yields from the
\* table.
C17_MutationInvalidates ==
    (Mutated /\ Truthy(all_repositories)) =>
        LET db == DbGetRepositories(repository)
            all == all_repositories.repos
        IN  /\ all_repositories.gen = reloads
            /\ \A n \in DOMAIN db :
                  (providers_db_first \/ n \notin DOMAIN ini) =>
                     /\ n \in DOMAIN all
                     /\ \A k \in DOMAIN db[n] : /\ k \in DOMAIN all[n]
                                                 /\ all[n][k] = db[n][k]

\* ------------------------------------------------------------ names and ids
\* C18: no two ids of the repository table carry a 'name' row of the same
\* value.
C18_NamesUnique ==
    \A i, j \in 1..Len(repository) :
        ( /\ repository[i].name = "name"
          /\ repository[j].name = "name"
          /\ repository[i].value = repository[j].value )
        => repository[i].id = repository[j].id

\* The names the provider operations are called with
TableNames == {NameA, NameB}

\* What get_repository_id(reponame) returns on `table`
IdOf(table, reponame) == get_repository_id(table, reponame)[1]

\* The step is a modify_repository that is given a 'name'
Renames ==
    /\ db_call' # db_call
    /\ db_call'.op = "modify_repository"
    /\ \E k \in 1..Len(db_call'.changes) : db_call'.changes[k][1] = "name"

\* The step is a remove_repository of reponame
Removes(reponame) ==
    /\ db_call' # db_call
    /\ db_call'.op = "remove_repository"
    /\ Normal(db_call'.reponame) = reponame

\* C19 as stated: once a name has an id, get_repository_id(name) returns
\* that id after every add_repository, add_alias, modify_repository and
\* remove_repository.
C19_AsStated ==
    [][\A n \in TableNames :
          IdsNamed(repository, n) # {}
             => IdOf(repository', n) = IdOf(repository, n)]_vars

\* C19, amended: ... after every add_repository, add_alias and
\* get_repository_id, every modify_repository that is given no 'name', and
\* every remove_repository of another name.
C19_IdStable ==
    [][\A n \in TableNames :
          (IdsNamed(repository, n) # {} /\ ~Renames /\ ~Removes(n))
             => IdOf(repository', n) = IdOf(repository, n)]_vars

\* C19's case: A was added, B was added and removed, A was added again under
\* the id it had.
C19_Witness ==
    /\ db_call.op = "add_repository"
    /\ last[1].op = "add_repository"
    /\ last[1].kind = "ok"
    /\ last[1].key = NameA
    /\ IdsNamed(repository, NameA) = {1}
    /\ IdsNamed(repository, NameB) = {}
    /\ Cardinality(RowsOf(repository, 1)) = 5

Handled == request.pc = "done"

\* Every name of the option was looked up, in order, and every backend found
\* was synchronized.
EveryNameProcessed ==
    /\ Len(request.log) = Len(request.names)
    /\ \A k \in 1..Len(request.names) :
          /\ request.log[k].reponame = Normal(request.names[k])
          /\ request.log[k].lookup \in {"repos", "None", "TracError"}
          /\ request.log[k].lookup = "repos"
                => request.log[k].sync \in {"ok", "TracError"}

\* C21 as stated: pre_process_request looks up and synchronizes every name
\* of repository_sync_per_request in order whatever the lookups and sync()
\* calls before it did, and returns the handler it was passed.
C21_AsStated ==
    Handled => (EveryNameProcessed /\ request.returned = request.handler)

\* C21, amended: ... for a handler that is not the Chrome component; for
\* the Chrome component nothing is looked up; the handler is returned
\* unchanged in both cases.
C21_EveryNameProcessed ==
    Handled =>
        /\ request.handler # "Chrome" => EveryNameProcessed
        /\ request.handler = "Chrome" => request.log = << >>
        /\ request.returned = request.handler

\* C21's case: a lookup raised TracError, a name was not resolved and a
\* sync() raised TracError, each followed by a name that was synchronized.
C21_Witness ==
    /\ Handled
    /\ Len(request.log) = 3
    /\ \E j, k \in 1..2 :
          /\ request.log[j].lookup = "TracError"
          /\ request.log[k].lookup = "None"
    /\ request.log[3].sync = "ok"

\* ------------------------------------------------------------ alias chains
\* Name n is an alias of a name that is itself an alias and has no dir
AliasOfAlias(n) ==
    LET own == ConfiguredFor(n)
    IN  /\ "alias" \in DOMAIN own
        /\ "alias" \in DOMAIN ConfiguredFor(own["alias"])
        /\ ~HasDir(ConfiguredFor(own["alias"]))

\* C22: get_repository reads the configuration of at most one alias target:
\* after the record of the target is read the call goes on to the backend or
\* returns, and for a name that is an alias of a name that is only an alias
\* (of a third name, of the first, or of itself) it returns None, having
\* stopped at the first target.
C22_OneAliasHop ==
    [][\A t \in Threads :
          LookupStep(t) =>
            /\ frame'[t].phase <= 2
            /\ (pc[t] = "gar_ret" /\ frame[t].phase = 2)
                  => pc'[t] \in {"gr_lock", "idle"}
            /\ (pc'[t] = "idle" /\ AliasOfAlias(frame[t].arg))
                  => /\ last'[t].kind = "None"
                     /\ last'[t].key = ConfiguredFor(frame[t].arg)["alias"]
                     /\ ~last'[t].built]_vars

\* C22's case: with A an alias of B, B an alias of C and C configured with a
\* dir, get_repository('A') returned None; so it does with B an alias of A
\* or of itself.
C22_Witness ==
    /\ pc[1] = "idle"
    /\ last[1].op = "get_repository"
    /\ last[1].arg = NameA
    /\ last[1].kind = "None"
    /\ AliasOfAlias(NameA)
    /\ ConfiguredFor(NameA)["alias"] = NameB
    /\ ConfiguredFor(NameB)["alias"] = NameC
    /\ HasDir(ConfiguredFor(NameC))

\* -------------------------------------------------------- dispatch_request
\* Thread t last dispatched a request with an opened environment and
\* wsgi.run_once false, and the dispatch is over
Dispatched(t) ==
    /\ ~serving[t].active
    /\ serving[t].handled > 0
    /\ serving[t].env
    /\ ~serving[t].run_once

Reports(k, ty) ==
    {connectors[k].types[i][2] :
        i \in {j \in 1..Len(connectors[k].types) :
                  connectors[k].types[j][1] = ty}}

\* The priorities the registered connectors report for type ty
AllPrios(ty) == UNION {Reports(k, ty) : k \in 1..Len(connectors)}

\* The connector get_repository asks for a backend of type ty
Used(ty) == _get_connector(connectors_tab.tab, ty).connector

\* C24: when get_repository returns a backend, the connector it asked is
\* the first registered one that reports the repository's type with the
\* highest priority any registered connector reports for it.
C24_HighestPriorityConnector ==
    \A t \in Threads :
        (last[t].op = "get_repository" /\ last[t].kind = "repos") =>
            LET ty == TypeSeen(last[t])
            IN  /\ connectors_tab.built
                /\ Used(ty) \in 1..Len(connectors)
                /\ Max(AllPrios(ty)) \in Reports(Used(ty), ty)
                /\ \A k \in 1..(Used(ty) - 1) :
                      Max(AllPrios(ty)) \notin Reports(k, ty)

\* C24's case: two connectors report the type with the same, highest
\* priority and a lower one is reported too.
C24_Witness ==
    /\ last[1].op = "get_repository"
    /\ last[1].kind = "repos"
    /\ Len(connectors) = 2
    /\ Cardinality(AllPrios(TypeSeen(last[1]))) >= 2
    /\ Max(AllPrios(TypeSeen(last[1]))) \in Reports(1, TypeSeen(last[1]))
    /\ Max(AllPrios(TypeSeen(last[1]))) \in Reports(2, TypeSeen(last[1]))

\* C25: a type is in get_supported_types() exactly when some registered
\* connector reports it with a non-negative priority, and a get_repository
\* of a repository with a dir returns a backend when the repository's type
\* is in get_supported_types() and raises TracError when it is not.
C25_SupportedTypesAgree ==
    /\ get_supported_types(connectors)
          = {ty \in {Svn, Hg, Git} : \E p \in AllPrios(ty) : p >= 0}
    /\ \A t \in Threads :
          (last[t].op = "get_repository" /\ HasDir(last[t].cfg)) =>
              /\ TypeSeen(last[t]) \in get_supported_types(connectors)
                    => last[t].kind = "repos"
              /\ TypeSeen(last[t]) \notin get_supported_types(connectors)
                    => last[t].kind = "TracError"

\* C25's case: a backend was returned for a type that one connector reports
\* as unusable and another as usable, and a lookup of a type no connector
\* can serve raised.
C25_Witness ==
    /\ last[1].op = "get_repository"
    /\ last[1].kind = "repos"
    /\ -1 \in AllPrios(TypeSeen(last[1]))
    /\ last[1].after.op = "get_repository"
    /\ last[1].after.kind = "TracError"

\* --------------------------------------------------------- TicketGroupStats
\* refresh_calcs() has just run on statistics that count at least one unit
Refreshed == stat.op = "refresh_calcs" /\ stat.obj.count >= 1

\* The percentages of the intervals of stat
Percents == [i \in DOMAIN stat.obj.intervals |-> stat.obj.intervals[i].percent]

\* C30: after refresh_calcs() on statistics whose count is at least 1 the
\* percentages of the intervals add up to 100 and done_percent is the sum of
\* the percentages of the intervals marked overall_completion.
C30_PercentagesAddUp ==
    Refreshed =>
        /\ SumOver(Percents, DOMAIN Percents) = 100
        /\ stat.obj.done_percent
              = SumOver(Percents,
                        {i \in DOMAIN Percents :
                            stat.obj.intervals[i].overall_completion})

\* ---------------------------------------------------- get_ticket_group_stats
\* The groups of the latest call that are declared with status '*'
CatchAlls ==
    {i \in 1..Len(grouped.groups) :
        grouped.groups[i].declared /\ grouped.groups[i].status = Star}

\* C26: get_ticket_group_stats with two groups of status '*' configured
\* raises the TracError that names two catch-all groups, wherever in the
\* order the two are, and returns no statistics.
C26_TwoCatchAllsRaise ==
    (grouped.kind # "none" /\ Cardinality(CatchAlls) >= 2) =>
        /\ grouped.kind = "TracError"
        /\ grouped.msg = "catch-all"
        /\ \E i, j \in CatchAlls :
              /\ i < j
              /\ grouped.group2 = grouped.groups[i].name
              /\ grouped.group1 = grouped.groups[j].name
        /\ grouped.stat = NewStats

\* ------------------------------------------------------------ get_changesets
\* The changesets of history at the places in S, youngest first
RECURSIVE Chosen2(_, _, _)
Chosen2(history, S, i) ==
    IF i > Len(history) THEN << >>
    ELSE (IF i \in S THEN <<history[i]>> ELSE << >>)
            \o Chosen2(history, S, i + 1)

\* The places whose date d has start <= d < stop
InPeriod ==
    {i \in DOMAIN walk.history :
        walk.start <= walk.history[i].date /\ walk.history[i].date < walk.stop}

\* The places before the first changeset that is dated before start or has
\* revision 0
Walked ==
    {i \in DOMAIN walk.history :
        \A j \in 1..i : /\ walk.history[j].date >= walk.start
                         /\ walk.history[j].rev # 0}

Cached(i) == i \in Backends(Repositories(cache, inst[i].tid))

\* C27: every backend that was constructed and is no longer in the cache of
\* its thread has been closed.
C27_DroppedMeansClosed ==
    \A i \in 1..Len(inst) : ~Cached(i) => inst[i].closed

\* ------------------------------------------- modify_repository as a whole
\* Some change of the list sets 'dir' to a path that is not absolute
HasRelativeDir(changes) ==
    \E i \in DOMAIN changes :
       changes[i][1] = "dir" /\ ~isabs(changes[i][2])

\* The rows of the table for attribute k of repository id
RowsOfAttr(table, id, k) ==
    {j \in DOMAIN table : table[j].id = id /\ table[j].name = k}

\* C28: a modify_repository that raises leaves the table, the cached
\* configuration and the backend caches as they were; one that succeeds
\* leaves, for every change of a known attribute, exactly one row for the
\* repository's id and that attribute, holding the new value.
C28_ModifyAllOrNothing ==
    [][\A t \in Threads :
          ProviderCall(t, "modify_repository") =>
            LET changes == db_call'.changes
                id == get_repository_id(repository, db_call'.reponame)[1]
            IN  IF HasRelativeDir(changes)
                THEN /\ pc'[t] = "idle"
                     /\ last'[t].kind = "TracError"
                     /\ UNCHANGED <<repository, all_repositories, cache,
                                    reloads>>
                ELSE /\ pc'[t] = "db_reload"
                     /\ \A i \in DOMAIN changes :
                           changes[i][1] \in repository_attrs =>
                             \E j \in DOMAIN repository' :
                               /\ RowsOfAttr(repository', id, changes[i][1])
                                    = {j}
                               /\ repository'[j].value
                                    = ChangeValue(changes[i][1],
                                                  changes[i][2])]_vars

====
